---- MODULE Spec2Model ----
(***************************************************************************)
(* State-machine model of the jelly-j daemon (src/src/daemon.ts): client   *)
(* registry and router, turn queue and executor with stale-resume          *)
(* recovery, history journal, persisted state; and of the singleton lock   *)
(* (acquireAgentLock / releaseAgentLock of state.ts).                      *)
(*                                                                         *)
(* One action is one run of the event loop between two awaits.             *)
(* Zellij session tags and environment contexts are not part of this       *)
(* model.                                                                  *)
(***************************************************************************)
EXTENDS Integers, Sequences, FiniteSets, TLC

\* ---------------------------------------------------------------- bounds
MaxConns == 2             \* transports that ever connect
MaxRequests == 3          \* chat_request frames accepted in one run
MaxExecRequests == 2      \* ... in one run of Spec
MaxRouteRequests == 1     \* ... in one run of SpecRoute and of SpecFrames
MaxRecoveryRequests == 1  \* ... in one run of SpecRecovery
MaxEvents == 1            \* text / tool_use events of one adapter attempt
MaxPendingSnap == 1       \* handleRegister calls of one transport awaiting the history read
MaxSnapshotEntries == 2   \* entries of history.jsonl that a snapshot reads back
NumProcs == 2             \* processes that race for the lock
MaxLines == 4             \* lines of a history.jsonl that readHistorySnapshot is given
MaxUiFrames == 3          \* frames one UI client writes after register_client

\* ------------------------------------------------------------- constants
LockAttempts == 3         \* for (attempt = 0; attempt < 3; ...)

Conns == 1..MaxConns
Rids == 1..MaxRequests
Procs == 1..NumProcs
NoConn == 0
NoRid == 0
NoPid == 0
ClientIds == {"c1", "c2"}
NoClient == "-"
ModelAliases == {"opus", "haiku"}
NoModel == ""
NoEnv == "(unset)"
Sessions == {"z1", "z2"}
NoToken == "none"
SeedToken == "t0"
FreshTokens == {"t1"}

Fragments == {"ok", " "}
StaleText == "[error_during_execution] No conversation found with session ID: t0"
OtherText == "[error_max_turns] turn limit"
ResultErrorTexts == {StaleText, OtherText}
ExitCode1Msg == "Claude Code process exited with code 1"
FatalMsg == "spawn claude ENOENT"
StaleThrownMsg == "No conversation found with session ID: t0"
ThrowMsgs == {ExitCode1Msg, FatalMsg, StaleThrownMsg}

TurnFrameTypes == {"chat_start", "chat_delta", "tool_use", "result_error", "error", "chat_end"}

VARIABLES
  \* --- daemon state (runDaemon closure)
  connState,        \* socket of each transport: "new" | "open" | "closed" (destroyed)
  connClientId,     \* connection.clientId
  clientsBySocket,  \* Map<Socket, ClientConnection>, in insertion order
  clientsById,      \* Map<string, ClientConnection>
  queue,            \* PendingChatRequest[]
  processing,
  sessionId,
  currentModel,
  \* --- processQueue locals of the turn in flight
  pc,               \* await the turn is suspended at
  nextReq,          \* `next`, the dequeued request
  assistantText,
  hadError,
  resultErrors,
  calls,            \* runChatAttempt invocations of this turn
  retriedAfter,     \* the retry of line 330 has been taken
  resumeArg,        \* resumeSessionId of the running attempt
  streamOpen,       \* the running attempt has not yet produced its result message
  nEvents,
  chatResult,       \* result.sessionId
  caughtMessage,    \* message of the exception caught by the outer catch
  \* --- continuations of other handlers
  pendingSnap,      \* handleRegister calls awaiting readHistorySnapshot, per transport
  pendingNew,       \* new_session handler awaiting persistDaemonState
  \* --- files
  persisted,        \* state.json: sessionId
  history,          \* history.jsonl: the entries a snapshot would read back
  \* --- observation
  out,              \* frames emitted by the last step
  before,           \* the model_updated or invalid-json frame the step before it began with
  phase,            \* where each request's frame stream stands
  startOrder,       \* request ids in the order of their chat_start
  lost,             \* the client of the latest turn closed its transport during that turn
  staleCase,        \* attempt 1 of the latest turn met a stale result error before any text
  staleShown,       \* a frame carrying a stale error was emitted for the latest turn
  errShown,         \* a result_error frame was emitted for the latest turn
  nextRid,
  \* --- lock file and the processes racing for it
  lockFile,
  procs,
  sockFile,         \* the process whose listening socket DAEMON_SOCKET_PATH names
  \* --- client processes
  link,             \* per client: the daemon its socket reached, the daemonPid it was told
  \* --- readHistorySnapshot on a file of any content
  journal,          \* history.jsonl: whether it exists, and its lines
  snapshot,         \* what readHistorySnapshot() returned
  \* --- one run of the command line (index.ts main)
  launcher,         \* mode, position, the pid it waits for, and what it has done to a daemon
  \* --- one UI client (runUiClient)
  state,            \* UiSessionState: activeRequestId, currentModel, readlinePaused
  written,          \* frames the last step wrote on the socket
  shown,            \* note or error the last step displayed
  uiObs,            \* uuids used, chat_request ids sent, and those whose end was received
  \* --- heartbeat.ts, zellij.ts and the workspaces they act on
  zellij,           \* per client: the zellij session its process runs in (process.env)
  activeZellijEnv,  \* zellij.ts: the env context zellij commands are run with
  knownSessions,    \* heartbeat.ts: Map<sessionName, env>, in insertion order
  tick,             \* the run of check() in flight: position, locals, the action its last
                    \* step called, and whether that step logged a failure
  tabs              \* per session: the name of the tab at each position

regVars == <<connState, connClientId, clientsBySocket, clientsById>>
execVars == <<queue, processing, sessionId>>
daemonVars == <<regVars, execVars, currentModel>>
turnVars == <<pc, nextReq, assistantText, hadError, resultErrors, calls, retriedAfter,
              resumeArg, streamOpen, nEvents, chatResult, caughtMessage>>
contVars == <<pendingSnap, pendingNew>>
fileVars == <<persisted, history>>
turnObs == <<lost, staleCase, staleShown, errShown>>
obsVars == <<out, before, phase, startOrder, turnObs, nextRid>>
uiVars == <<state, written, shown, uiObs>>
hbVars == <<zellij, activeZellijEnv, knownSessions, tick, tabs>>
sideVars == <<link, journal, snapshot, launcher, uiVars, hbVars>>
\* what no handler of the daemon reads or writes
outerVars == <<lockFile, procs, sockFile, link, journal, snapshot, launcher, uiVars>>
lockVars == <<lockFile, procs, sockFile, sideVars>>
vars == <<daemonVars, turnVars, contVars, fileVars, obsVars, lockVars>>

\* ------------------------------------------------------------ pure helpers

NoReq == [rid |-> NoRid, clientId |-> NoClient]

\* a frame; `to` is the transport it was written on, `cid` the identifier it was routed by,
\* `n` its queuedAhead, `pid` its daemonPid and `model` its model (of the frames that
\* carry one)
Msg(type, rid, ok, text) ==
  [type |-> type, rid |-> rid, ok |-> ok, text |-> text, to |-> NoConn, cid |-> NoClient,
   n |-> 0, pid |-> NoPid, model |-> NoModel]

\* /no conversation found with session id/i.test(text)
isStaleResumeError(text) == text \in {StaleText, StaleThrownMsg}

\* /claude code process exited with code 1/i.test(text)
isExitCode1(text) == text = ExitCode1Msg

hasOnlyStaleResumeErrors(errors) ==
  /\ Len(errors) > 0
  /\ \A i \in 1..Len(errors) : isStaleResumeError(errors[i])

\* assistantText.trim().length > 0
TrimNonEmpty(text) == \E i \in 1..Len(text) : text[i] # " "

\* every structured error is forwarded at once
neverRecoverable(sid, text, resultError) == FALSE

isRecoverableResumeResultError(sid, text, resultError) ==
  IF sid = NoToken THEN FALSE
  ELSE IF TrimNonEmpty(text) THEN FALSE
  ELSE isStaleResumeError(resultError)

shouldRetryWithFreshSession(errorMessage, sid, text, errors) ==
  IF sid = NoToken THEN FALSE
  ELSE IF TrimNonEmpty(text) THEN FALSE
  ELSE IF hasOnlyStaleResumeErrors(errors) THEN TRUE
  ELSE IF isExitCode1(errorMessage)
       THEN Len(errors) = 0 \/ hasOnlyStaleResumeErrors(errors)
  ELSE FALSE

\* send(socket, message): nothing is written on a destroyed socket
Send(s, m) == IF connState[s] # "open" THEN m ELSE [m EXCEPT !.to = s]

\* routes to the oldest connection, whatever identifier the frame is for
sendToFirstClient(cid, m) ==
  IF clientsBySocket = <<>> THEN [m EXCEPT !.cid = cid]
  ELSE Send(clientsBySocket[1], [m EXCEPT !.cid = cid])

sendToClientId(cid, m) ==
  IF cid \notin ClientIds THEN m
  ELSE IF clientsById[cid] = NoConn THEN [m EXCEPT !.cid = cid]
  ELSE Send(clientsById[cid], [m EXCEPT !.cid = cid])

\* writes to the oldest connection only
broadcastFirst(m) ==
  IF clientsBySocket = <<>> THEN <<>> ELSE <<Send(clientsBySocket[1], m)>>

broadcast(m) == [i \in 1..Len(clientsBySocket) |-> Send(clientsBySocket[i], m)]

\* queue.pop()
QueuePop(q) == [next |-> q[Len(q)], rest |-> SubSeq(q, 1, Len(q) - 1)]

\* queue.shift()
QueueShift(q) == [next |-> Head(q), rest |-> Tail(q)]

\* without `if (processing) return`
ProcessQueueGuardNoBusy(busy, q) == q # <<>>

\* if (processing) return; const next = queue.shift(); if (!next) return;
ProcessQueueGuard(busy, q) == ~busy /\ q # <<>>

Max(a, b) == IF a > b THEN a ELSE b

\* entries.slice(-MAX_SNAPSHOT_ENTRIES) of the journal after one more append
AppendEntry(h, e) ==
  LET all == Append(h, e) IN
  IF Len(all) <= MaxSnapshotEntries THEN all
  ELSE SubSeq(all, Len(all) - MaxSnapshotEntries + 1, Len(all))

\* ------------------------------------------------------------ observation

\* the stream of one request: queued, chat_start, events, chat_end
PhaseAfter(ph, type) ==
  IF type = "chat_start" THEN (IF ph = "queued" THEN "started" ELSE "bad")
  ELSE IF type = "chat_end" THEN (IF ph = "started" THEN "ended" ELSE "bad")
  ELSE IF ph = "started" THEN "started" ELSE "bad"

RECURSIVE Advance(_, _)
Advance(ph, frames) ==
  IF frames = <<>> THEN ph
  ELSE LET f == Head(frames) IN
       Advance(IF f.rid # NoRid /\ f.type \in TurnFrameTypes
               THEN [ph EXCEPT ![f.rid] = PhaseAfter(ph[f.rid], f.type)]
               ELSE ph,
               Tail(frames))

StartsIn(frames) ==
  LET IsStart(f) == f.type = "chat_start"
      sel == SelectSeq(frames, IsStart)
  IN [i \in 1..Len(sel) |-> sel[i].rid]

CarriesStale(frames) ==
  \E i \in 1..Len(frames) :
    /\ frames[i].type \in {"result_error", "error"}
    /\ frames[i].rid # NoRid
    /\ isStaleResumeError(frames[i].text)

NoFrame == Msg("none", NoRid, TRUE, "")

\* the first frame of a broadcast of model_updated or of the answer to a malformed line
LastControl(frames) ==
  IF frames = <<>> THEN NoFrame
  ELSE IF Head(frames).type = "model_updated" THEN Head(frames)
  ELSE IF Head(frames).type = "error" /\ Head(frames).text = "invalid json message"
       THEN Head(frames)
  ELSE NoFrame

\* accepted: the requests entering the queue in this step
Observe(frames, accepted) ==
  /\ out' = frames
  /\ before' = LastControl(out)
  /\ phase' = Advance([r \in Rids |-> IF r \in accepted THEN "queued" ELSE phase[r]], frames)
  /\ startOrder' = startOrder \o StartsIn(frames)

Emit(frames) == Observe(frames, {})

\* ------------------------------------------------------------------- Init

IdleTurn ==
  /\ pc = "idle"
  /\ nextReq = NoReq
  /\ assistantText = <<>>
  /\ hadError = FALSE
  /\ resultErrors = <<>>
  /\ calls = 0
  /\ retriedAfter = FALSE
  /\ resumeArg = NoToken
  /\ streamOpen = FALSE
  /\ nEvents = 0
  /\ chatResult = NoToken
  /\ caughtMessage = ""

\* agent.lock.json: ino tells one creation of the file from the next; pid is the
\* owner pid a reader parses out of it (NoPid: missing, empty or unparsable)
NoLock == [exists |-> FALSE, ino |-> 0, pid |-> NoPid]
ProcOff == [pc |-> "off", attempt |-> 0, fd |-> 0]

\* a client process that has not connected
NoLink == [peer |-> NoPid, daemonPid |-> NoPid]

\* history.jsonl does not exist
Missing == [exists |-> FALSE, lines |-> <<>>]
NotRead == [read |-> FALSE, entries |-> <<>>]

\* no command has been started
LauncherOff ==
  [mode |-> "", pc |-> "off", target |-> NoPid,
   probed |-> FALSE, signalled |-> FALSE, spawned |-> FALSE]

\* runUiClient before any input
InitUi ==
  /\ state = [activeRequestId |-> NoRid, currentModel |-> "opus", readlinePaused |-> FALSE]
  /\ written = <<>>
  /\ shown = ""
  /\ uiObs = [next |-> 1, sent |-> {}, ended |-> {}]

\* heartbeat.ts before its first tick
NoDid == [kind |-> "none", env |-> NoEnv, position |-> 0]
TickIdle ==
  [pc |-> "idle", previousEnv |-> NoEnv, sessions |-> <<>>, session |-> NoEnv,
   state |-> <<>>, renames |-> {}, suggestion |-> FALSE, tabIds |-> FALSE,
   did |-> NoDid, failed |-> FALSE]

\* every client runs outside zellij: no session is known and no env is published
InitHeartbeatOff ==
  /\ zellij = [c \in ClientIds |-> NoEnv]
  /\ activeZellijEnv = NoEnv
  /\ knownSessions = <<>>
  /\ tick = TickIdle
  /\ tabs = [z \in Sessions |-> <<>>]

\* nothing outside the daemon has run
InitSide ==
  /\ link = [c \in ClientIds |-> NoLink]
  /\ journal = Missing
  /\ snapshot = NotRead
  /\ launcher = LauncherOff
  /\ InitUi
  /\ InitHeartbeatOff

InitLockIdle ==
  /\ lockFile = NoLock
  /\ procs = [p \in Procs |-> ProcOff]
  /\ sockFile = NoPid
  /\ InitSide

\* the daemon after runDaemon has read state.json and started to listen
InitDaemon ==
  /\ connState = [s \in Conns |-> "new"]
  /\ connClientId = [s \in Conns |-> NoClient]
  /\ clientsBySocket = <<>>
  /\ clientsById = [c \in ClientIds |-> NoConn]
  /\ queue = <<>>
  /\ processing = FALSE
  /\ sessionId \in {NoToken, SeedToken}
  /\ persisted = sessionId
  /\ currentModel = "opus"
  /\ IdleTurn
  /\ pendingSnap = [s \in Conns |-> 0]
  /\ pendingNew = [active |-> FALSE, clientId |-> NoClient, payload |-> NoToken]
  /\ history = <<>>
  /\ out = <<>>
  /\ before = NoFrame
  /\ phase = [r \in Rids |-> "none"]
  /\ startOrder = <<>>
  /\ lost = FALSE
  /\ staleCase = FALSE
  /\ staleShown = FALSE
  /\ errShown = FALSE
  /\ nextRid = 1

Init == InitDaemon /\ InitLockIdle

\* a daemon whose state.json held no session id
InitNoToken == Init /\ sessionId = NoToken

\* ---------------------------------------------------- processQueue: start

\* without the chat_start frame
TurnStartFramesNone(nx) == <<>>

\* queuedAhead: 0
ChatStartQueuedAhead == 0

TurnStartFrames(nx) ==
  <<sendToClientId(nx.clientId,
                   [Msg("chat_start", nx.rid, TRUE, "")
                      EXCEPT !.n = ChatStartQueuedAhead, !.model = currentModel])>>

ResetAttemptState ==
  /\ assistantText' = <<>>
  /\ hadError' = FALSE
  /\ resultErrors' = <<>>

FreshLocals ==
  /\ ResetAttemptState
  /\ calls' = 0
  /\ retriedAfter' = FALSE
  /\ resumeArg' = NoToken
  /\ streamOpen' = FALSE
  /\ nEvents' = 0
  /\ chatResult' = NoToken
  /\ caughtMessage' = ""

\* next.zellijEnv: the env of the client process that wrote the request
RequestEnv(nx) == zellij[nx.clientId]

\* processQueue() up to its first await, entered with queue q and processing = busy;
\* pre are the frames the caller emitted before calling it.
ProcessQueue(q, busy, pre, accepted) ==
  IF ProcessQueueGuard(busy, q)
  THEN LET sh == QueueShift(q) IN
       /\ queue' = sh.rest
       /\ processing' = TRUE
       /\ nextReq' = sh.next
       /\ FreshLocals
       /\ pc' = "appendUser"
       /\ lost' = FALSE
       /\ staleCase' = FALSE
       /\ staleShown' = FALSE
       /\ errShown' = FALSE
       /\ activeZellijEnv' = RequestEnv(sh.next)
       /\ Observe(pre \o TurnStartFrames(sh.next), accepted)
  ELSE /\ queue' = q
       /\ processing' = busy
       /\ IF busy
          THEN UNCHANGED turnVars
          ELSE /\ pc' = "idle"
               /\ nextReq' = NoReq
               /\ FreshLocals
       /\ UNCHANGED <<turnObs, activeZellijEnv>>
       /\ Observe(pre, accepted)

\* ------------------------------------------------------ transport events

\* server.on("connection"): transports connect in the order of their index
Connect(s) ==
  /\ connState[s] = "new"
  /\ \A t \in Conns : t < s => connState[t] # "new"
  /\ connState' = [connState EXCEPT ![s] = "open"]
  /\ clientsBySocket' = Append(clientsBySocket, s)
  /\ Emit(<<>>)
  /\ UNCHANGED <<connClientId, clientsById, execVars, currentModel>>
  /\ UNCHANGED <<turnVars, contVars, fileVars, lockVars, turnObs, nextRid>>

\* clientsById.delete(connection.clientId)
CloseById(byId, cid) ==
  IF cid # NoClient THEN [byId EXCEPT ![cid] = NoConn] ELSE byId

\* socket.on("close"); the connection object is unreachable afterwards
Close(s) ==
  /\ connState[s] = "open"
  /\ connState' = [connState EXCEPT ![s] = "closed"]
  /\ clientsBySocket' = SelectSeq(clientsBySocket, LAMBDA t : t # s)
  /\ clientsById' = CloseById(clientsById, connClientId[s])
  /\ connClientId' = [connClientId EXCEPT ![s] = NoClient]
  /\ lost' = (lost \/ (processing /\ connClientId[s] = nextReq.clientId))
  /\ Emit(<<>>)
  /\ UNCHANGED <<execVars, currentModel>>
  /\ UNCHANGED <<turnVars, contVars, fileVars, lockVars, staleCase, staleShown, errShown, nextRid>>

\* ------------------------------------------------------- handleMessage

\* process.pid of the daemon whose state this is
DaemonPid == 1

\* knownSessions.set(env.ZELLIJ_SESSION_NAME, env), unless the env names no session
updateHeartbeatZellijEnv(known, env) ==
  IF env = NoEnv \/ (\E i \in DOMAIN known : known[i] = env) THEN known ELSE Append(known, env)

RecvRegister(s, cid) ==
  /\ connState[s] = "open"
  /\ pendingSnap[s] < MaxPendingSnap
  /\ connClientId' = [connClientId EXCEPT ![s] = cid]
  /\ clientsById' = [clientsById EXCEPT ![cid] = s]
  /\ pendingSnap' = [pendingSnap EXCEPT ![s] = @ + 1]
  /\ knownSessions' = updateHeartbeatZellijEnv(knownSessions, zellij[cid])
  /\ Emit(<<Send(s, [Msg("registered", NoRid, processing, cid) EXCEPT !.pid = DaemonPid])>>)
  /\ UNCHANGED <<connState, clientsBySocket, execVars, currentModel>>
  /\ UNCHANGED <<turnVars, pendingNew, fileVars, turnObs, nextRid>>
  /\ UNCHANGED <<outerVars, zellij, activeZellijEnv, tick, tabs>>

\* continuation of handleRegister after `await readHistorySnapshot()`
SnapshotRead(s) ==
  /\ pendingSnap[s] > 0
  /\ pendingSnap' = [pendingSnap EXCEPT ![s] = @ - 1]
  /\ Emit(<<Send(s, Msg("history_snapshot", NoRid, TRUE, ""))>>)
  /\ UNCHANGED <<daemonVars, turnVars, pendingNew, fileVars, lockVars, turnObs, nextRid>>

QueuedNote(cid, q, busy) ==
  LET queuedAhead == Max(0, Len(q) - 1 + (IF busy THEN 1 ELSE 0)) IN
  IF queuedAhead > 0
  THEN <<sendToClientId(cid, Msg("status_note", NoRid, TRUE, "request queued"))>>
  ELSE <<>>

RecvChatRequest(s, cid) ==
  /\ connState[s] = "open"
  /\ nextRid <= MaxRequests
  /\ LET req == [rid |-> nextRid, clientId |-> cid]
         q == Append(queue, req)
     IN ProcessQueue(q, processing, QueuedNote(cid, q, processing), {nextRid})
  /\ nextRid' = nextRid + 1
  /\ UNCHANGED <<regVars, sessionId, currentModel>>
  /\ UNCHANGED <<contVars, fileVars, outerVars, zellij, knownSessions, tick, tabs>>

RecvSetModel(s, alias) ==
  /\ connState[s] = "open"
  /\ currentModel' = alias
  /\ Emit(broadcast(Msg("model_updated", NoRid, TRUE, alias)))
  /\ UNCHANGED <<regVars, execVars>>
  /\ UNCHANGED <<turnVars, contVars, fileVars, lockVars, turnObs, nextRid>>

\* a new_session that is never refused
NewSessionBusyNever(busy, q) == FALSE

\* if (processing || queue.length > 0)
NewSessionBusy(busy, q) == busy \/ Len(q) > 0

\* a new_session that leaves the session id as it is
KeptToken(sid) == sid

\* sessionId = undefined
ClearedToken(sid) == NoToken

RecvNewSession(s, cid) ==
  /\ connState[s] = "open"
  /\ IF NewSessionBusy(processing, queue)
     THEN /\ Emit(<<sendToClientId(cid, Msg("error", NoRid, FALSE, "cannot start a new session"))>>)
          /\ UNCHANGED <<sessionId, pendingNew>>
     ELSE /\ ~pendingNew.active
          /\ sessionId' = ClearedToken(sessionId)
          /\ pendingNew' = [active |-> TRUE, clientId |-> cid, payload |-> NoToken]
          /\ Emit(<<>>)
  /\ UNCHANGED <<regVars, queue, processing, currentModel>>
  /\ UNCHANGED <<turnVars, pendingSnap, fileVars, lockVars, turnObs, nextRid>>

\* continuation of the new_session handler after `await persistDaemonState(...)`
NewSessionPersisted ==
  /\ pendingNew.active
  /\ persisted' = pendingNew.payload
  /\ pendingNew' = [active |-> FALSE, clientId |-> NoClient, payload |-> NoToken]
  /\ Emit(<<sendToClientId(pendingNew.clientId, Msg("status_note", NoRid, TRUE, "new Claude session created"))>>)
  /\ UNCHANGED <<daemonVars, turnVars, pendingSnap, history, lockVars, turnObs, nextRid>>

\* a pong that does not echo the request id
PongFramesNoId(cid, x) ==
  <<sendToClientId(cid, [Msg("pong", NoRid, TRUE, "") EXCEPT !.pid = DaemonPid])>>

\* { type: "pong", requestId: message.requestId, daemonPid: process.pid }
PongFrames(cid, x) ==
  <<sendToClientId(cid, [Msg("pong", x, TRUE, "") EXCEPT !.pid = DaemonPid])>>

\* a ping frame with clientId cid and requestId x
RecvPing(s, cid, x) ==
  /\ connState[s] = "open"
  /\ Emit(PongFrames(cid, x))
  /\ UNCHANGED <<daemonVars, turnVars, contVars, fileVars, lockVars, turnObs, nextRid>>

\* a malformed line that ends the connection
RecvMalformedCloses(s) ==
  /\ connState[s] = "open"
  /\ connState' = [connState EXCEPT ![s] = "closed"]
  /\ Emit(<<Send(s, Msg("error", NoRid, FALSE, "invalid json message"))>>)
  /\ UNCHANGED <<connClientId, clientsBySocket, clientsById, execVars, currentModel>>
  /\ UNCHANGED <<turnVars, contVars, fileVars, lockVars, turnObs, nextRid>>

\* a line that parseMessage rejects
RecvMalformed(s) ==
  /\ connState[s] = "open"
  /\ Emit(<<Send(s, Msg("error", NoRid, FALSE, "invalid json message"))>>)
  /\ UNCHANGED <<daemonVars, turnVars, contVars, fileVars, lockVars, turnObs, nextRid>>

\* a well-formed object whose type is none of the five cases
RecvUnknown(s) ==
  /\ connState[s] = "open"
  /\ Emit(<<Send(s, Msg("error", NoRid, FALSE, "unsupported message type"))>>)
  /\ UNCHANGED <<daemonVars, turnVars, contVars, fileVars, lockVars, turnObs, nextRid>>

\* ------------------------------------------------- processQueue: the turn

\* text.trimEnd(): the fragment " " is white space
RECURSIVE TrimEnd(_)
TrimEnd(text) ==
  IF text = <<>> THEN <<>>
  ELSE IF text[Len(text)] = " " THEN TrimEnd(SubSeq(text, 1, Len(text) - 1))
  ELSE text

NoTextMark == <<"(no text)">>

\* the accumulated text as it is
AssistantTextRaw(text) == text

\* assistantText.trimEnd() || "(no text)"
AssistantText(text) == IF TrimEnd(text) = <<>> THEN NoTextMark ELSE TrimEnd(text)

\* text: next.text, which the request id stands for
UserEntry(nx) == [role |-> "user", rid |-> nx.rid, text |-> <<>>]

\* a turn that logs an assistant entry whatever happened
TerminalEntryAssistant(nx, hasErr, text, errors) ==
  [role |-> "assistant", rid |-> nx.rid, text |-> AssistantText(text)]

\* role "assistant" when the turn had no error, role "error" with
\* resultErrors.join("\n") otherwise
TerminalEntry(nx, hasErr, text, errors) ==
  IF ~hasErr
  THEN [role |-> "assistant", rid |-> nx.rid, text |-> AssistantText(text)]
  ELSE [role |-> "error", rid |-> nx.rid, text |-> errors]

CatchEntry(nx, message) == [role |-> "error", rid |-> nx.rid, text |-> <<message>>]

\* a payload that leaves the session id out
PersistNothing(sid) == NoToken

\* writeState: if (state.sessionId) payload.sessionId = state.sessionId
PersistPayload(sid) == sid

EndFrames(nx, hasErr) ==
  <<sendToClientId(nx.clientId,
                   [Msg("chat_end", nx.rid, ~hasErr, "") EXCEPT !.model = currentModel])>>

\* the outer catch without its chat_end
CatchFramesNoEnd(nx, message) ==
  <<sendToClientId(nx.clientId, Msg("error", nx.rid, FALSE, message))>>

CatchFrames(nx, message) ==
  <<sendToClientId(nx.clientId, Msg("error", nx.rid, FALSE, message)),
    sendToClientId(nx.clientId,
                   [Msg("chat_end", nx.rid, FALSE, "") EXCEPT !.model = currentModel])>>

RetryNote(nx, text) == <<sendToClientId(nx.clientId, Msg("status_note", NoRid, TRUE, text))>>

\* resumes after `await appendHistoryEntry({role: "user"})` and calls runChatAttempt(sessionId)
UserAppended ==
  /\ pc = "appendUser"
  /\ history' = AppendEntry(history, UserEntry(nextReq))
  /\ pc' = "attempt"
  /\ calls' = 1
  /\ resumeArg' = sessionId
  /\ streamOpen' = TRUE
  /\ nEvents' = 0
  /\ Emit(<<>>)
  /\ UNCHANGED <<daemonVars, contVars, persisted, lockVars, turnObs, nextRid>>
  /\ UNCHANGED <<nextReq, assistantText, hadError, resultErrors, retriedAfter, chatResult, caughtMessage>>

\* streamEvents.onText
OnText(frag) ==
  /\ pc = "attempt" /\ streamOpen /\ nEvents < MaxEvents
  /\ assistantText' = Append(assistantText, frag)
  /\ nEvents' = nEvents + 1
  /\ Emit(<<sendToClientId(nextReq.clientId, Msg("chat_delta", nextReq.rid, TRUE, frag))>>)
  /\ UNCHANGED <<daemonVars, contVars, fileVars, lockVars, turnObs, nextRid>>
  /\ UNCHANGED <<pc, nextReq, hadError, resultErrors, calls, retriedAfter, resumeArg, streamOpen,
                 chatResult, caughtMessage>>

\* streamEvents.onToolUse
OnToolUse ==
  /\ pc = "attempt" /\ streamOpen /\ nEvents < MaxEvents
  /\ nEvents' = nEvents + 1
  /\ Emit(<<sendToClientId(nextReq.clientId, Msg("tool_use", nextReq.rid, TRUE, "tool"))>>)
  /\ UNCHANGED <<daemonVars, contVars, fileVars, lockVars, turnObs, nextRid>>
  /\ UNCHANGED <<pc, nextReq, assistantText, hadError, resultErrors, calls, retriedAfter, resumeArg,
                 streamOpen, chatResult, caughtMessage>>

\* a structured error that is never sent
ResultErrorFramesNone(nx, sid, text, formatted) == <<>>

ResultErrorFrames(nx, sid, text, formatted) ==
  IF isRecoverableResumeResultError(sid, text, formatted)
  THEN <<>>
  ELSE <<sendToClientId(nx.clientId, Msg("result_error", nx.rid, FALSE, formatted))>>

\* streamEvents.onResultError: the result message is the last one of the stream
OnResultError(formatted) ==
  /\ pc = "attempt" /\ streamOpen
  /\ streamOpen' = FALSE
  /\ hadError' = TRUE
  /\ resultErrors' = Append(resultErrors, formatted)
  /\ LET frames == ResultErrorFrames(nextReq, sessionId, assistantText, formatted) IN
       /\ Emit(frames)
       /\ staleShown' = (staleShown \/ CarriesStale(frames))
       /\ errShown' = (errShown \/ frames # <<>>)
  /\ staleCase' = (staleCase \/ (/\ calls = 1
                                 /\ sessionId # NoToken
                                 /\ assistantText = <<>>
                                 /\ isStaleResumeError(formatted)))
  /\ UNCHANGED <<daemonVars, contVars, fileVars, lockVars, lost, nextRid>>
  /\ UNCHANGED <<pc, nextReq, assistantText, calls, retriedAfter, resumeArg, nEvents,
                 chatResult, caughtMessage>>

\* sessionId = undefined; resetAttemptState(); runChatAttempt(undefined)
\* a retry that keeps the session id
RetryKeepsToken(sid) == sid

\* sessionId = undefined, before the second runChatAttempt
RetryToken(sid) == NoToken

RetryFresh(note) ==
  /\ sessionId' = RetryToken(sessionId)
  /\ ResetAttemptState
  /\ calls' = calls + 1
  /\ resumeArg' = NoToken
  /\ streamOpen' = TRUE
  /\ nEvents' = 0
  /\ pc' = "attempt"
  /\ Emit(RetryNote(nextReq, note))
  /\ UNCHANGED <<chatResult, caughtMessage>>

\* chat() returns { sessionId: newSessionId ?? sessionId }
ChatReturns(newSessionId) ==
  /\ pc = "attempt"
  /\ LET result == IF newSessionId # NoToken THEN newSessionId ELSE resumeArg IN
     IF /\ ~retriedAfter
        /\ hadError
        /\ shouldRetryWithFreshSession("", sessionId, assistantText, resultErrors)
     THEN /\ RetryFresh("stale Claude session detected; retrying with a fresh session")
          /\ retriedAfter' = TRUE
     ELSE /\ sessionId' = result
          /\ chatResult' = result
          /\ pc' = "persist"
          /\ Emit(<<>>)
          /\ UNCHANGED <<assistantText, hadError, resultErrors, calls, retriedAfter, resumeArg,
                         streamOpen, nEvents, caughtMessage>>
  /\ UNCHANGED <<regVars, queue, processing, currentModel>>
  /\ UNCHANGED <<nextReq, contVars, fileVars, lockVars, turnObs, nextRid>>

\* chat() rejects: the catch of the first attempt, or the outer catch
ChatThrows(message) ==
  /\ pc = "attempt"
  /\ IF /\ calls = 1
        /\ shouldRetryWithFreshSession(message, sessionId, assistantText, resultErrors)
     THEN /\ RetryFresh("previous Claude session could not be resumed; retrying with a fresh session")
          /\ UNCHANGED retriedAfter
     ELSE /\ hadError' = TRUE
          /\ caughtMessage' = message
          /\ pc' = "appendCatch"
          /\ Emit(<<>>)
          /\ UNCHANGED <<sessionId, assistantText, resultErrors, calls, retriedAfter, resumeArg,
                         streamOpen, nEvents, chatResult>>
  /\ UNCHANGED <<regVars, queue, processing, currentModel>>
  /\ UNCHANGED <<nextReq, contVars, fileVars, lockVars, turnObs, nextRid>>

\* resumes after `await persistDaemonState(...)` and calls appendHistoryEntry.
\* writeState calls complete in the order they were issued.
Persisted ==
  /\ pc = "persist"
  /\ ~pendingNew.active
  /\ persisted' = PersistPayload(chatResult)
  /\ pc' = "appendTerminal"
  /\ Emit(<<>>)
  /\ UNCHANGED <<daemonVars, contVars, history, lockVars, turnObs, nextRid>>
  /\ UNCHANGED <<nextReq, assistantText, hadError, resultErrors, calls, retriedAfter, resumeArg,
                 streamOpen, nEvents, chatResult, caughtMessage>>

\* resumes after the assistant / error entry: chat_end, then finally { processQueue() }
TerminalAppended ==
  /\ pc = "appendTerminal"
  /\ history' = AppendEntry(history, TerminalEntry(nextReq, hadError, assistantText, resultErrors))
  /\ ProcessQueue(queue, FALSE, EndFrames(nextReq, hadError), {})
  /\ UNCHANGED <<regVars, sessionId, currentModel>>
  /\ UNCHANGED <<contVars, persisted, outerVars, zellij, knownSessions, tick, tabs, nextRid>>

\* outer catch after its appendHistoryEntry: error, chat_end, then finally { processQueue() }
CatchAppended ==
  /\ pc = "appendCatch"
  /\ history' = AppendEntry(history, CatchEntry(nextReq, caughtMessage))
  /\ ProcessQueue(queue, FALSE, CatchFrames(nextReq, caughtMessage), {})
  /\ UNCHANGED <<regVars, sessionId, currentModel>>
  /\ UNCHANGED <<contVars, persisted, outerVars, zellij, knownSessions, tick, tabs, nextRid>>

\* ------------------------------------------------------------------ Next

\* adapter inputs: the stream events and the ways one chat() call ends
AdapterStep(frags, errs) ==
  \/ \E frag \in frags : OnText(frag)
  \/ OnToolUse
  \/ \E e \in errs : OnResultError(e)

ChatEnds(msgs) ==
  \/ \E t \in FreshTokens \cup {NoToken} : ChatReturns(t)
  \/ \E m \in msgs : ChatThrows(m)

TurnStep ==
  \/ UserAppended
  \/ Persisted
  \/ TerminalAppended
  \/ CatchAppended

\* Spec, the executor: one client, "c1", that registers once per transport,
\* submits at most MaxExecRequests requests, and reconnects on the next
\* transport when it has lost one; adapter inputs that reach every branch of
\* processQueue (a stale error is forwarded when no resume token is held and
\* retried when one is).
Next ==
  \/ \E s \in Conns : (\A t \in Conns : connState[t] # "open") /\ Connect(s)
  \/ \E s \in Conns : Close(s)
  \/ \E s \in Conns : connClientId[s] = NoClient /\ RecvRegister(s, "c1")
  \/ \E s \in Conns : nextRid <= MaxExecRequests /\ RecvChatRequest(s, "c1")
  \/ \E s \in Conns : SnapshotRead(s)
  \/ AdapterStep({"ok"}, {StaleText})
  \/ ChatEnds({ExitCode1Msg})
  \/ TurnStep

Spec == Init /\ [][Next]_vars

\* FairSpec, for what must eventually happen: the same client on its first
\* transport only. The event loop runs every ready continuation, and every
\* adapter call returns or throws.
NextFair ==
  \/ Connect(1)
  \/ Close(1)
  \/ connClientId[1] = NoClient /\ RecvRegister(1, "c1")
  \/ nextRid <= MaxExecRequests /\ RecvChatRequest(1, "c1")
  \/ SnapshotRead(1)
  \/ AdapterStep({"ok"}, {StaleText})
  \/ ChatEnds({ExitCode1Msg})
  \/ TurnStep

FairSpec ==
  /\ Init
  /\ [][NextFair]_vars
  /\ WF_vars(TurnStep)
  /\ WF_vars(ChatEnds({ExitCode1Msg}))

\* the client on transport s, when two clients take turns
Ident(s) == IF s % 2 = 1 THEN "c1" ELSE "c2"

\* SpecQueue, the queue: two clients that register once and submit under their
\* own identifier, one transport open at a time; MaxRequests requests; adapter
\* calls that return or throw at once.
NextQueue ==
  \/ \E s \in Conns : (\A t \in Conns : connState[t] # "open") /\ Connect(s)
  \/ \E s \in Conns : Close(s)
  \/ \E s \in Conns : connClientId[s] = NoClient /\ RecvRegister(s, Ident(s))
  \/ \E s \in Conns : RecvChatRequest(s, Ident(s))
  \/ \E s \in Conns : SnapshotRead(s)
  \/ ChatEnds({FatalMsg})
  \/ TurnStep

SpecQueue == InitNoToken /\ [][NextQueue]_vars

\* SpecRoute, the router: the clients' transports open together (a third
\* transport is client "c1" again, connected before its old transport closed);
\* at most MaxRouteRequests requests, no resume token.
NextRoute ==
  \/ \E s \in Conns : Connect(s)
  \/ \E s \in Conns : Close(s)
  \/ \E s \in Conns : connClientId[s] = NoClient /\ RecvRegister(s, Ident(s))
  \/ \E s \in Conns : nextRid <= MaxRouteRequests /\ RecvChatRequest(s, Ident(s))
  \/ \E s \in Conns : SnapshotRead(s)
  \/ AdapterStep({"ok"}, {OtherText})
  \/ ChatEnds({FatalMsg})
  \/ TurnStep

SpecRoute == InitNoToken /\ [][NextRoute]_vars

\* SpecRecovery, stale-resume recovery: one client, every adapter input.
NextRecovery ==
  \/ Connect(1)
  \/ Close(1)
  \/ connClientId[1] = NoClient /\ RecvRegister(1, "c1")
  \/ nextRid <= MaxRecoveryRequests /\ RecvChatRequest(1, "c1")
  \/ RecvNewSession(1, "c1")
  \/ SnapshotRead(1)
  \/ NewSessionPersisted
  \/ AdapterStep(Fragments, ResultErrorTexts)
  \/ ChatEnds(ThrowMsgs)
  \/ TurnStep

SpecRecovery == Init /\ [][NextRecovery]_vars

\* SpecFrames, the frame handlers: every client frame with any identifier on
\* any transport, around turns that succeed at once.
NextFrames ==
  \/ \E s \in Conns : Connect(s)
  \/ \E s \in Conns : Close(s)
  \/ \E s \in Conns, cid \in ClientIds : RecvRegister(s, cid)
  \/ \E s \in Conns, cid \in ClientIds : nextRid <= MaxRouteRequests /\ RecvChatRequest(s, cid)
  \/ \E s \in Conns, alias \in ModelAliases : RecvSetModel(s, alias)
  \/ \E s \in Conns, cid \in ClientIds, x \in Rids : RecvPing(s, cid, x)
  \/ \E s \in Conns : RecvMalformed(s)
  \/ \E s \in Conns : RecvUnknown(s)
  \/ \E s \in Conns : SnapshotRead(s)
  \/ UserAppended
  \/ OnText("ok")
  \/ \E t \in FreshTokens : ChatReturns(t)
  \/ Persisted
  \/ TerminalAppended

SpecFrames == InitNoToken /\ [][NextFrames]_vars

\* SpecJournal, the history journal: one client, MaxExecRequests requests, no
\* resume token at the start, every text fragment, errors that are not retried.
NextJournal ==
  \/ Connect(1)
  \/ Close(1)
  \/ connClientId[1] = NoClient /\ RecvRegister(1, "c1")
  \/ nextRid <= MaxExecRequests /\ RecvChatRequest(1, "c1")
  \/ SnapshotRead(1)
  \/ AdapterStep(Fragments, {OtherText})
  \/ ChatEnds({FatalMsg})
  \/ TurnStep

SpecJournal == InitNoToken /\ [][NextJournal]_vars

\* SpecControl, the frames outside a turn: clients that register once and then
\* send ping (under any identifier), set_model, malformed and unknown lines.
NextControl ==
  \/ \E s \in Conns : Connect(s)
  \/ \E s \in Conns : Close(s)
  \/ \E s \in Conns : connClientId[s] = NoClient /\ RecvRegister(s, Ident(s))
  \/ \E s \in Conns : SnapshotRead(s)
  \/ \E s \in Conns, cid \in ClientIds, x \in Rids : RecvPing(s, cid, x)
  \/ \E s \in Conns, alias \in ModelAliases : RecvSetModel(s, alias)
  \/ \E s \in Conns : RecvMalformed(s)
  \/ \E s \in Conns : RecvUnknown(s)

SpecControl == InitNoToken /\ [][NextControl]_vars

\* --------------------------------------------------- the singleton lock

\* the pid of a process that died without releasing the lock
DeadPid == NumProcs + 1
StaleLock == [exists |-> TRUE, ino |-> 0, pid |-> DeadPid]

\* the pid of a live process of another user, and a lock file it owns
ForeignPid == NumProcs + 2
ForeignLock == [exists |-> TRUE, ino |-> 0, pid |-> ForeignPid]

\* process.kill(pid, 0): succeeds for a process that has started and not exited,
\* fails with EPERM for a live process of another user, with ESRCH for no process
KillProbe(pid) ==
  IF pid \in Procs
  THEN (IF procs[pid].pc \notin {"off", "refused", "exited"} THEN "ok" ELSE "ESRCH")
  ELSE IF pid = ForeignPid THEN "EPERM" ELSE "ESRCH"

\* a probe that counts every failure as a dead owner
processIsAliveStrict(pid) == KillProbe(pid) = "ok"

\* try { process.kill(pid, 0); return true } catch (error) { return err.code === "EPERM" }
processIsAlive(pid) == KillProbe(pid) \in {"ok", "EPERM"}

\* the file one open(path, "wx") of process p creates
NewIno(p, attempt) == (p - 1) * LockAttempts + attempt + 1

\* the lock functions touch neither the daemon's state nor the socket path
LockIdle == UNCHANGED <<daemonVars, turnVars, contVars, fileVars, obsVars, sockFile, sideVars>>

\* runDaemon calls acquireAgentLock: attempt = 0
StartAcquire(p) ==
  /\ procs[p].pc = "off"
  /\ procs' = [procs EXCEPT ![p] = [pc |-> "open", attempt |-> 0, fd |-> 0]]
  /\ UNCHANGED lockFile
  /\ LockIdle

\* createAgentLock: open(AGENT_LOCK_PATH, "wx") creates an empty file or fails with EEXIST
CreateOpen(p) ==
  /\ procs[p].pc = "open"
  /\ IF lockFile.exists
     THEN /\ procs' = [procs EXCEPT ![p].pc = "read"]
          /\ UNCHANGED lockFile
     ELSE LET ino == NewIno(p, procs[p].attempt) IN
          /\ lockFile' = [exists |-> TRUE, ino |-> ino, pid |-> NoPid]
          /\ procs' = [procs EXCEPT ![p].pc = "write", ![p].fd = ino]
  /\ LockIdle

\* createAgentLock: handle.writeFile(owner) writes the file the handle refers to,
\* which the path no longer names once another process has unlinked it;
\* acquireAgentLock then returns { acquired: true }
CreateWrite(p) ==
  /\ procs[p].pc = "write"
  /\ lockFile' = IF lockFile.exists /\ lockFile.ino = procs[p].fd
                 THEN [lockFile EXCEPT !.pid = p]
                 ELSE lockFile
  /\ procs' = [procs EXCEPT ![p].pc = "held"]
  /\ LockIdle

\* readAgentLock, and the two returns that follow it
ReadExisting(p) ==
  /\ procs[p].pc = "read"
  /\ LET existingOwner == IF lockFile.exists THEN lockFile.pid ELSE NoPid IN
     procs' = [procs EXCEPT ![p].pc =
                 IF existingOwner = p THEN "held"
                 ELSE IF existingOwner # NoPid /\ processIsAlive(existingOwner) THEN "refused"
                 ELSE "unlink"]
  /\ UNCHANGED lockFile
  /\ LockIdle

\* a stale file that is left in place
UnlinkNothing(p) ==
  /\ procs[p].pc = "unlink"
  /\ UNCHANGED lockFile
  /\ procs' = [procs EXCEPT ![p].attempt = @ + 1,
                            ![p].pc = IF procs[p].attempt + 1 < LockAttempts THEN "open" ELSE "refused"]
  /\ LockIdle

\* unlink(AGENT_LOCK_PATH), best effort; then the next attempt, or acquired: false
UnlinkStale(p) ==
  /\ procs[p].pc = "unlink"
  /\ lockFile' = NoLock
  /\ procs' = [procs EXCEPT ![p].attempt = @ + 1,
                            ![p].pc = IF procs[p].attempt + 1 < LockAttempts THEN "open" ELSE "refused"]
  /\ LockIdle

\* cleanupAndExit calls releaseAgentLock: readAgentLock and the early return
ReleaseRead(p) ==
  /\ procs[p].pc \in {"held", "cleanup"}
  /\ LET existingOwner == IF lockFile.exists THEN lockFile.pid ELSE NoPid IN
     procs' = [procs EXCEPT ![p].pc =
                 IF existingOwner # NoPid /\ existingOwner # p THEN "exited" ELSE "release"]
  /\ UNCHANGED lockFile
  /\ LockIdle

\* releaseAgentLock: unlink(AGENT_LOCK_PATH), then process.exit
ReleaseUnlink(p) ==
  /\ procs[p].pc = "release"
  /\ lockFile' = NoLock
  /\ procs' = [procs EXCEPT ![p].pc = "exited"]
  /\ LockIdle

\* SpecLock: NumProcs daemons start, on no lock file or on a stale one
InitLock ==
  /\ InitDaemon
  /\ sessionId = NoToken
  /\ lockFile \in {NoLock, StaleLock}
  /\ procs = [p \in Procs |-> ProcOff]
  /\ sockFile = NoPid
  /\ InitSide

NextLock ==
  \/ \E p \in Procs : StartAcquire(p)
  \/ \E p \in Procs : CreateOpen(p)
  \/ \E p \in Procs : CreateWrite(p)
  \/ \E p \in Procs : ReadExisting(p)
  \/ \E p \in Procs : UnlinkStale(p)
  \/ \E p \in Procs : ReleaseRead(p)
  \/ \E p \in Procs : ReleaseUnlink(p)

SpecLock == InitLock /\ [][NextLock]_vars

\* SpecProbe: the same processes, on a lock file that may also belong to a live
\* process of another user
InitProbe ==
  /\ InitDaemon
  /\ sessionId = NoToken
  /\ lockFile \in {NoLock, StaleLock, ForeignLock}
  /\ procs = [p \in Procs |-> ProcOff]
  /\ sockFile = NoPid
  /\ InitSide

SpecProbe == InitProbe /\ [][NextLock]_vars

\* one step of acquireAgentLock in process p
AcquireStep(p) ==
  \/ CreateOpen(p)
  \/ CreateWrite(p)
  \/ ReadExisting(p)
  \/ UnlinkStale(p)

\* FairLock: a process that has called acquireAgentLock runs it to its return
FairLock ==
  /\ InitLock
  /\ [][NextLock]_vars
  /\ \A p \in Procs : WF_vars(AcquireStep(p))

\* ------------------------------------------------------ daemon startup

StartupIdle == UNCHANGED <<daemonVars, turnVars, contVars, fileVars, obsVars, sideVars>>

\* runDaemon after the lock: unlink(DAEMON_SOCKET_PATH), errors ignored
SocketUnlink(p) ==
  /\ procs[p].pc = "held"
  /\ sockFile' = NoPid
  /\ procs' = [procs EXCEPT ![p].pc = "listen"]
  /\ UNCHANGED lockFile
  /\ StartupIdle

\* server.listen(DAEMON_SOCKET_PATH): binds when the path is free; otherwise the
\* error handler gets EADDRINUSE and calls cleanupAndExit(0)
Listen(p) ==
  /\ procs[p].pc = "listen"
  /\ IF sockFile = NoPid
     THEN /\ sockFile' = p
          /\ procs' = [procs EXCEPT ![p].pc = "serving"]
     ELSE /\ UNCHANGED sockFile
          /\ procs' = [procs EXCEPT ![p].pc = "inuse"]
  /\ UNCHANGED lockFile
  /\ StartupIdle

\* a signal or an uncaught error reaches the serving daemon: cleanupAndExit sets
\* cleaningUp, stops the heartbeat, calls server.close() (no new connections; the
\* open ones stay) and starts to unlink the socket path
CleanupStart(p) ==
  /\ procs[p].pc = "serving"
  /\ procs' = [procs EXCEPT ![p].pc = "closing"]
  /\ UNCHANGED <<lockFile, sockFile>>
  /\ StartupIdle

\* cleanupAndExit: server.close(); unlink(DAEMON_SOCKET_PATH); then releaseAgentLock
CleanupSocket(p) ==
  /\ procs[p].pc \in {"inuse", "closing"}
  /\ sockFile' = NoPid
  /\ procs' = [procs EXCEPT ![p].pc = "cleanup"]
  /\ UNCHANGED lockFile
  /\ StartupIdle

\* SpecStartup: NumProcs daemons start together, no daemon running; the lock
\* file and the socket path are free or left over from a crash
InitStartup ==
  /\ InitDaemon
  /\ sessionId = NoToken
  /\ lockFile \in {NoLock, StaleLock}
  /\ procs = [p \in Procs |-> ProcOff]
  /\ sockFile \in {NoPid, DeadPid}
  /\ InitSide

NextStartup ==
  \/ \E p \in Procs : StartAcquire(p)
  \/ \E p \in Procs : CreateOpen(p)
  \/ \E p \in Procs : CreateWrite(p)
  \/ \E p \in Procs : ReadExisting(p)
  \/ \E p \in Procs : UnlinkStale(p)
  \/ \E p \in Procs : SocketUnlink(p)
  \/ \E p \in Procs : Listen(p)
  \/ \E p \in Procs : CleanupSocket(p)
  \/ \E p \in Procs : procs[p].pc = "cleanup" /\ ReleaseRead(p)
  \/ \E p \in Procs : ReleaseUnlink(p)

SpecStartup == InitStartup /\ [][NextStartup]_vars

\* ------------------------------------------------------- the UI client

UiIdle ==
  /\ UNCHANGED <<daemonVars, turnVars, contVars, fileVars, obsVars>>
  /\ UNCHANGED <<lockFile, procs, sockFile, link, journal, snapshot, launcher, hbVars>>

\* a line of input after trim(): empty, an exit alias, a slash command that is
\* wrong, /model, /model <alias>, /new, or text for the assistant
Inputs == {"", "quit", "/x", "/model", "/model opus", "/model haiku", "/new", "hello"}

StillProcessing == "still processing previous request"

\* a client that never refuses input
BusyNever(st) == FALSE

\* if (state.activeRequestId)
Busy(st) == st.activeRequestId # NoRid

UiFrame(type, rid, arg) == [type |-> type, rid |-> rid, arg |-> arg]

\* rl.on("line"); resetSession is what handleSlashCommand reported for /new
Line(input, resetSession) ==
  /\ uiObs.next <= MaxUiFrames
  /\ LET id == uiObs.next IN
     IF input = ""
     THEN /\ shown' = ""
          /\ written' = <<>>
          /\ UNCHANGED <<state, uiObs>>
     ELSE IF Busy(state)
     THEN /\ shown' = StillProcessing
          /\ written' = <<>>
          /\ UNCHANGED <<state, uiObs>>
     ELSE IF input = "quit"
     THEN /\ shown' = "exit/quit is disabled"
          /\ written' = <<>>
          /\ UNCHANGED <<state, uiObs>>
     ELSE IF input \in {"/x", "/model"}
     THEN /\ shown' = (IF input = "/x" THEN "unknown command" ELSE "model current")
          /\ written' = <<>>
          /\ UNCHANGED <<state, uiObs>>
     ELSE IF input \in {"/model opus", "/model haiku"}
     THEN LET alias == IF input = "/model opus" THEN "opus" ELSE "haiku" IN
          /\ shown' = (IF alias = state.currentModel THEN "model already set" ELSE "model set")
          /\ IF alias # state.currentModel
             THEN /\ written' = <<UiFrame("set_model", id, alias)>>
                  /\ uiObs' = [uiObs EXCEPT !.next = id + 1]
             ELSE /\ written' = <<>>
                  /\ UNCHANGED uiObs
          /\ UNCHANGED state
     ELSE IF input = "/new"
     THEN /\ shown' = "started fresh session"
          /\ IF resetSession
             THEN /\ written' = <<UiFrame("new_session", id, "")>>
                  /\ uiObs' = [uiObs EXCEPT !.next = id + 1]
             ELSE /\ written' = <<>>
                  /\ UNCHANGED uiObs
          /\ UNCHANGED state
     ELSE /\ shown' = ""
          /\ state' = [state EXCEPT !.activeRequestId = id, !.readlinePaused = TRUE]
          /\ written' = <<UiFrame("chat_request", id, input)>>
          /\ uiObs' = [uiObs EXCEPT !.next = id + 1, !.sent = @ \cup {id}]
  /\ UiIdle

\* restorePrompt
restorePrompt(st) == [st EXCEPT !.activeRequestId = NoRid, !.readlinePaused = FALSE]

\* handleIncoming: a frame of the daemon with request id rid (NoRid: none) and,
\* for registered and model_updated, a model alias
Incoming(type, rid, alias) ==
  /\ written' = <<>>
  /\ IF type = "chat_end"
     THEN /\ rid # NoRid
          /\ state' = IF state.activeRequestId = rid THEN restorePrompt(state) ELSE state
          /\ shown' = ""
          /\ uiObs' = [uiObs EXCEPT !.ended = @ \cup {rid}]
     ELSE IF type = "error"
     THEN /\ state' = IF rid # NoRid /\ state.activeRequestId = rid
                       THEN restorePrompt(state) ELSE state
          /\ shown' = "error"
          /\ uiObs' = [uiObs EXCEPT !.ended = IF rid # NoRid THEN @ \cup {rid} ELSE @]
     ELSE IF type \in {"registered", "model_updated"}
     THEN /\ state' = [state EXCEPT !.currentModel = alias]
          /\ shown' = (IF type = "model_updated" THEN "model changed" ELSE "")
          /\ UNCHANGED uiObs
     ELSE /\ type \in {"chat_start", "chat_delta", "tool_use", "result_error", "status_note",
                        "history_snapshot", "pong"}
          /\ shown' = (IF type = "status_note" THEN "note" ELSE "")
          /\ UNCHANGED <<state, uiObs>>
  /\ UiIdle

\* SpecUi: one UI client, any input, and any frame a daemon may send it about
\* the requests it has sent
NextUi ==
  \/ \E input \in Inputs, resetSession \in BOOLEAN : Line(input, resetSession)
  \/ \E type \in {"chat_end", "error", "chat_start", "chat_delta", "status_note"},
        rid \in uiObs.sent \cup {NoRid} : Incoming(type, rid, "opus")
  \/ \E type \in {"registered", "model_updated"}, alias \in ModelAliases :
        Incoming(type, NoRid, alias)

SpecUi == InitNoToken /\ [][NextUi]_vars

\* ------------------------------------------------ the command line (main)

\* process.argv[2]: "daemon", "ui", or anything else (the default)
Modes == {"daemon", "ui", "chat"}

LaunchIdle ==
  /\ UNCHANGED <<daemonVars, turnVars, contVars, fileVars, obsVars>>
  /\ UNCHANGED <<sockFile, link, journal, snapshot, uiVars, hbVars>>

\* main: mode "daemon" calls runDaemon; "ui" and the default both call
\* ensureDaemonRunning and then runUiClient
Main ==
  /\ launcher.pc = "main"
  /\ launcher' = [launcher EXCEPT !.pc = IF launcher.mode = "daemon" THEN "runDaemon" ELSE "probe"]
  /\ UNCHANGED <<lockFile, procs>>
  /\ LaunchIdle

\* probeDaemonHealth succeeds only if a serving daemon answers on the socket
\* path with registered and pong; it fails on a refused connection or a timeout
Healthy == sockFile \in Procs /\ procs[sockFile].pc = "serving"

\* ensureDaemonRunning: const initialHealth = await daemonHealthWithRetries()
ProbeFirst(ok) ==
  /\ launcher.pc = "probe"
  /\ ok => Healthy
  /\ launcher' = [launcher EXCEPT !.probed = TRUE, !.pc = IF ok THEN "runUi" ELSE "stop"]
  /\ UNCHANGED <<lockFile, procs>>
  /\ LaunchIdle

\* what SIGTERM does to daemon p: cleanupAndExit once the handlers of runDaemon
\* are installed (it is serving), nothing if it is already cleaning up, and the
\* default action, immediate death, before that
Sigterm(p) ==
  IF procs[p].pc = "serving" THEN [procs EXCEPT ![p].pc = "closing"]
  ELSE IF procs[p].pc \in {"closing", "cleanup", "release", "off", "refused", "exited"} THEN procs
  ELSE [procs EXCEPT ![p].pc = "exited"]

\* stopDaemonFromLock: read the owner of the lock; if it is alive send SIGTERM
\* (an EPERM is caught) and wait for it to die
StopDaemonFromLock ==
  /\ launcher.pc = "stop"
  /\ LET pid == IF lockFile.exists THEN lockFile.pid ELSE NoPid IN
     IF pid = NoPid \/ ~processIsAlive(pid) \/ pid \notin Procs
     THEN /\ launcher' = [launcher EXCEPT !.pc = "spawn"]
          /\ UNCHANGED procs
     ELSE /\ launcher' = [launcher EXCEPT !.pc = "waitStop", !.target = pid, !.signalled = TRUE]
          /\ procs' = Sigterm(pid)
  /\ UNCHANGED lockFile
  /\ LaunchIdle

\* the wait loop of stopDaemonFromLock: the daemon is gone, or the deadline has
\* passed and it is sent SIGKILL
WaitStopped(timedOut) ==
  /\ launcher.pc = "waitStop"
  /\ IF timedOut
     THEN procs' = [procs EXCEPT ![launcher.target].pc = "exited"]
     ELSE ~processIsAlive(launcher.target) /\ UNCHANGED procs
  /\ launcher' = [launcher EXCEPT !.pc = "spawn", !.target = NoPid]
  /\ UNCHANGED lockFile
  /\ LaunchIdle

\* spawnDetachedDaemon: a new process runs main in mode "daemon"
SpawnDetachedDaemon(p) ==
  /\ launcher.pc = "spawn"
  /\ procs[p].pc = "off"
  /\ procs' = [procs EXCEPT ![p] = [pc |-> "open", attempt |-> 0, fd |-> 0]]
  /\ launcher' = [launcher EXCEPT !.pc = "poll", !.spawned = TRUE]
  /\ UNCHANGED lockFile
  /\ LaunchIdle

\* the poll loop of ensureDaemonRunning ends: a probe succeeded ("ok"), or the
\* boot deadline passed ("timeout") and main fails
PollHealth(result) ==
  /\ launcher.pc = "poll"
  /\ result = "ok" => Healthy
  /\ launcher' = [launcher EXCEPT !.pc = IF result = "ok" THEN "runUi" ELSE "fatal"]
  /\ UNCHANGED <<lockFile, procs>>
  /\ LaunchIdle

\* SpecLaunch: one command in any mode, beside the daemons of SpecStartup
InitLaunch ==
  /\ InitDaemon
  /\ sessionId = NoToken
  /\ lockFile \in {NoLock, StaleLock}
  /\ procs = [p \in Procs |-> ProcOff]
  /\ sockFile \in {NoPid, DeadPid}
  /\ link = [c \in ClientIds |-> NoLink]
  /\ journal = Missing
  /\ snapshot = NotRead
  /\ \E m \in Modes : launcher = [LauncherOff EXCEPT !.mode = m, !.pc = "main"]
  /\ InitUi
  /\ InitHeartbeatOff

NextLaunch ==
  \/ NextStartup
  \/ Main
  \/ \E ok \in BOOLEAN : ProbeFirst(ok)
  \/ StopDaemonFromLock
  \/ \E timedOut \in BOOLEAN : WaitStopped(timedOut)
  \/ \E p \in Procs : SpawnDetachedDaemon(p)
  \/ \E result \in {"ok", "timeout"} : PollHealth(result)

SpecLaunch == InitLaunch /\ [][NextLaunch]_vars

\* ---------------------------------------------------- daemon shutdown

\* the daemon of the daemon state has not called process.exit
Running == procs[DaemonPid].pc # "exited"

\* its server accepts connections
Accepting == procs[DaemonPid].pc = "serving"

\* SpecShutdown: the daemon serves one client and at most MaxRouteRequests turns,
\* holds the lock and the socket path, and is told to stop at any moment
InitShutdown ==
  /\ InitDaemon
  /\ sessionId = NoToken
  /\ lockFile = [exists |-> TRUE, ino |-> NewIno(DaemonPid, 0), pid |-> DaemonPid]
  /\ procs = [p \in Procs |->
                IF p = DaemonPid
                THEN [pc |-> "serving", attempt |-> 0, fd |-> NewIno(DaemonPid, 0)]
                ELSE ProcOff]
  /\ sockFile = DaemonPid
  /\ InitSide

NextShutdown ==
  \/ Accepting /\ Connect(1)
  \/ Running /\ Close(1)
  \/ Running /\ connClientId[1] = NoClient /\ RecvRegister(1, "c1")
  \/ Running /\ nextRid <= MaxRouteRequests /\ RecvChatRequest(1, "c1")
  \/ Running /\ SnapshotRead(1)
  \/ Running /\ OnText("ok")
  \/ Running /\ ChatEnds({FatalMsg})
  \/ Running /\ TurnStep
  \/ CleanupStart(DaemonPid)
  \/ CleanupSocket(DaemonPid)
  \/ procs[DaemonPid].pc = "cleanup" /\ ReleaseRead(DaemonPid)
  \/ ReleaseUnlink(DaemonPid)

SpecShutdown == InitShutdown /\ [][NextShutdown]_vars

\* ------------------------------------------------- readHistorySnapshot

\* a line of the file after trim(): not JSON, or an object with some role and
\* some text ("" when the text is missing or blank)
Garbage == [json |-> FALSE, role |-> "", text |-> ""]
Lines == {Garbage} \cup [json : {TRUE}, role : {"user", "tool"}, text : {"", "a", "b"}]

RECURSIVE SeqsUpTo(_, _)
SeqsUpTo(S, n) ==
  IF n = 0 THEN {<<>>}
  ELSE LET shorter == SeqsUpTo(S, n - 1) IN
       shorter \cup {Append(q, x) : q \in shorter, x \in S}

Journals == {Missing} \cup {[exists |-> TRUE, lines |-> q] : q \in SeqsUpTo(Lines, MaxLines)}

\* normalizeRole
normalizeRole(role) ==
  IF role \in {"user", "assistant", "note", "error"} THEN role ELSE "note"

\* JSON.parse(line) succeeds and normalizeString(value.text) is defined
Parses(line) == line.json /\ line.text # ""

ParseLine(line) == [role |-> normalizeRole(line.role), text |-> line.text]

\* array.slice(-n)
SliceLast(q, n) == IF Len(q) <= n THEN q ELSE SubSeq(q, Len(q) - n + 1, Len(q))

\* slices the lines before it parses them
readHistorySnapshotSliceFirst(file, limit) ==
  IF ~file.exists THEN <<>>
  ELSE LET kept == SelectSeq(SliceLast(file.lines, Max(1, limit)), Parses)
       IN [i \in 1..Len(kept) |-> ParseLine(kept[i])]

readHistorySnapshot(file, limit) ==
  IF ~file.exists THEN <<>>
  ELSE LET kept == SelectSeq(file.lines, Parses)
           parsed == [i \in 1..Len(kept) |-> ParseLine(kept[i])]
       IN SliceLast(parsed, Max(1, limit))

\* handleRegister: const entries = await readHistorySnapshot()
ReadSnapshot ==
  /\ ~snapshot.read
  /\ snapshot' = [read |-> TRUE, entries |-> readHistorySnapshot(journal, MaxSnapshotEntries)]
  /\ UNCHANGED <<lockFile, procs, sockFile, link, journal, launcher, uiVars, hbVars>>
  /\ UNCHANGED <<daemonVars, turnVars, contVars, fileVars, obsVars>>

\* SpecSnapshot: readHistorySnapshot on every file of at most MaxLines lines
InitSnapshot ==
  /\ InitDaemon
  /\ sessionId = NoToken
  /\ lockFile = NoLock
  /\ procs = [p \in Procs |-> ProcOff]
  /\ sockFile = NoPid
  /\ link = [c \in ClientIds |-> NoLink]
  /\ journal \in Journals
  /\ snapshot = NotRead
  /\ launcher = LauncherOff
  /\ InitUi
  /\ InitHeartbeatOff

NextSnapshot == ReadSnapshot

SpecSnapshot == InitSnapshot /\ [][NextSnapshot]_vars

\* ------------------------------------------------ clients of the daemons

\* runUiClient: createConnection(DAEMON_SOCKET_PATH) reaches the daemon that is
\* bound to the path at that moment, then register_client is written
ClientConnect(c) ==
  /\ link[c].peer = NoPid
  /\ sockFile \in Procs
  /\ procs[sockFile].pc = "serving"
  /\ link' = [link EXCEPT ![c] = [peer |-> sockFile, daemonPid |-> NoPid]]
  /\ UNCHANGED <<lockFile, procs, sockFile, journal, snapshot, launcher, uiVars, hbVars>>
  /\ UNCHANGED <<daemonVars, turnVars, contVars, fileVars, obsVars>>

\* handleRegister of the daemon the client reached answers registered with
\* daemonPid: process.pid
ClientRegistered(c) ==
  /\ link[c].peer # NoPid
  /\ link[c].daemonPid = NoPid
  /\ procs[link[c].peer].pc = "serving"
  /\ link' = [link EXCEPT ![c].daemonPid = link[c].peer]
  /\ UNCHANGED <<lockFile, procs, sockFile, journal, snapshot, launcher, uiVars, hbVars>>
  /\ UNCHANGED <<daemonVars, turnVars, contVars, fileVars, obsVars>>

\* the client process ends and its socket closes
ClientGone(c) ==
  /\ link[c].peer # NoPid
  /\ link' = [link EXCEPT ![c] = NoLink]
  /\ UNCHANGED <<lockFile, procs, sockFile, journal, snapshot, launcher, uiVars, hbVars>>
  /\ UNCHANGED <<daemonVars, turnVars, contVars, fileVars, obsVars>>

\* SpecSingleton: the daemons of SpecStartup and the clients that connect to them
NextSingleton ==
  \/ NextStartup
  \/ \E c \in ClientIds : ClientConnect(c)
  \/ \E c \in ClientIds : ClientRegistered(c)
  \/ \E c \in ClientIds : ClientGone(c)

SpecSingleton == InitStartup /\ [][NextSingleton]_vars

\* the processes that hold the lock: acquired, alive, not yet releasing
Holders == {p \in Procs : procs[p].pc = "held"}

\* C6: at any instant at most one live process holds the lock record.
C6_LockMutualExclusion == Cardinality(Holders) <= 1

\* ------------------------------------------------------------ properties

FramesOut == {out[i] : i \in DOMAIN out}
IsTurnFrame(f) == f.type \in TurnFrameTypes /\ f.rid # NoRid
LiveRegistration(cid) ==
  /\ cid \in ClientIds
  /\ clientsById[cid] # NoConn
  /\ connState[clientsById[cid]] = "open"

\* C1: at most one turn is in flight at any time, across all clients: the
\* chat_start of a request is emitted only after the chat_end of the previous one.
C1_OneTurnInFlight == Cardinality({r \in Rids : phase[r] = "started"}) <= 1

\* a request waits in the queue while another one's turn is running
C1_Witness == queue # <<>> /\ \E r \in Rids : phase[r] = "started"

\* C2: turns start in the order their requests were enqueued (request ids are
\* handed out in enqueue order).
C2_FifoOrder == startOrder = [i \in 1..Len(startOrder) |-> i]

\* a turn ended and the next request was dequeued while another one still waits
C2_Witness ==
  /\ queue # <<>>
  /\ \E f \in FramesOut : f.type = "chat_start" /\ f.rid >= 2

\* C4: within one request's stream there is exactly one chat_start, it comes
\* before every chat_delta, tool_use, result_error and error of that request,
\* and chat_end is the last frame carrying that request id.
C4_FrameOrder == \A r \in Rids : phase[r] # "bad"

\* a structured error is forwarded between the chat_start and the chat_end
C4_Witness == \E f \in FramesOut : f.type = "result_error" /\ phase[f.rid] = "started"

\* C3: every accepted chat_request eventually gets exactly one chat_end,
\* whether the adapter returned, reported structured errors or threw; the
\* chat_end reaches the client unless no live registration is left for it, and
\* only then is it dropped.
C3_ExactlyOneChatEnd ==
  /\ []<>(\A r \in Rids : phase[r] \in {"none", "ended"})
  /\ [][\A r \in Rids : phase[r] = "ended" => phase'[r] = "ended"]_vars
  /\ [](\A f \in FramesOut : f.type = "chat_end" => (f.to = NoConn <=> ~LiveRegistration(f.cid)))

\* a turn whose adapter call threw has ended, with its chat_end delivered
C3_Witness ==
  \E f \in FramesOut : f.type = "chat_end" /\ ~f.ok /\ f.to # NoConn /\ phase[f.rid] = "ended"

\* C5: the frames of a turn (chat_start, chat_delta, tool_use, result_error,
\* error, chat_end) are written only on the transport registered under the
\* identifier the request carried, and are dropped when that identifier has no
\* live registration at the moment they are emitted.
C5_OnlyOriginator ==
  [][\A f \in FramesOut' :
       IsTurnFrame(f) =>
         LET req == IF nextReq.rid = f.rid THEN nextReq ELSE nextReq' IN
         /\ req.rid = f.rid
         /\ f.cid = req.clientId
         /\ IF LiveRegistration(req.clientId)
            THEN f.to = clientsById[req.clientId]
            ELSE f.to = NoConn]_vars

\* a turn frame reaches its client while another client is connected and registered
C5_Witness ==
  \E f \in FramesOut :
    /\ IsTurnFrame(f)
    /\ f.to # NoConn
    /\ \E s \in Conns : /\ s # f.to
                        /\ connState[s] = "open"
                        /\ connClientId[s] \notin {NoClient, f.cid}

C8_HandshakeFirst ==
  \A f \in FramesOut : (f.to # NoConn /\ pendingSnap[f.to] > 0) => f.type = "registered"

\* a frame other than register_client arrives on transport s
NonRegisterRecv(s) ==
  \/ \E cid \in ClientIds : RecvChatRequest(s, cid)
  \/ \E alias \in ModelAliases : RecvSetModel(s, alias)
  \/ \E cid \in ClientIds, x \in Rids : RecvPing(s, cid, x)
  \/ RecvMalformed(s)
  \/ RecvUnknown(s)

\* C9: a frame other than register_client from a transport that has not
\* registered yields exactly one error frame on that transport and has no
\* other effect.
C9_UnregisteredRejected ==
  [][\A s \in Conns :
       (connClientId[s] = NoClient /\ NonRegisterRecv(s))
         => /\ Len(out') = 1
            /\ out'[1].type = "error"
            /\ out'[1].to = s
            /\ UNCHANGED <<daemonVars, turnVars, contVars, fileVars>>]_vars

C11_NoStaleRegistration ==
  /\ \A i \in DOMAIN clientsBySocket : connState[clientsBySocket[i]] = "open"
  /\ \A c \in ClientIds : clientsById[c] # NoConn => connState[clientsById[c]] = "open"

\* C12: a new_session frame received while a turn is in flight or a request is
\* queued is answered with an error frame and leaves the session id, in memory
\* and in state.json, as it was.
C12_NewSessionRefusedWhenBusy ==
  [][\A s \in Conns, cid \in ClientIds :
       ((processing \/ queue # <<>>) /\ RecvNewSession(s, cid))
         => /\ Len(out') = 1
            /\ out'[1].type = "error"
            /\ out'[1].cid = cid
            /\ sessionId' = sessionId
            /\ persisted' = persisted
            /\ pendingNew' = pendingNew]_vars

\* a new_session was refused during a turn that runs on a resume token
C12_Witness ==
  /\ processing
  /\ sessionId # NoToken
  /\ \E f \in FramesOut : f.type = "error" /\ f.rid = NoRid /\ f.text = "cannot start a new session"

\* C13: a new_session frame received while the executor is idle clears the
\* session id and leaves the history journal as it is; once state.json is
\* written it is acknowledged with a status_note; the session id stays clear
\* until an adapter call returns one, and the next turn's first adapter call
\* gets the session id of that moment as its resume argument, that is, none.
C13_NewSessionWhenIdle ==
  /\ [][\A s \in Conns, cid \in ClientIds :
          (~processing /\ queue = <<>> /\ RecvNewSession(s, cid))
            => sessionId' = NoToken /\ history' = history /\ pendingNew'.active]_vars
  /\ [][NewSessionPersisted
          => /\ Len(out') = 1
             /\ out'[1].type = "status_note"
             /\ out'[1].cid = pendingNew.clientId
             /\ persisted' = NoToken
             /\ history' = history]_vars
  /\ [][(sessionId = NoToken /\ sessionId' # NoToken) => (pc = "attempt" /\ pc' = "persist")]_vars
  /\ [][(pc = "appendUser" /\ pc' = "attempt") => resumeArg' = sessionId]_vars
  /\ [](pendingNew.active /\ pc \in {"idle", "appendUser"} => sessionId = NoToken)

\* new_session has just been acknowledged while the next turn's adapter call runs without a token
C13_Witness ==
  /\ pc = "attempt"
  /\ calls = 1
  /\ resumeArg = NoToken
  /\ \E f \in FramesOut : f.type = "status_note" /\ f.text = "new Claude session created" /\ f.to # NoConn

\* C14: the daemon retries a failed attempt only when the text of the failure
\* matches the stale-conversation pattern: the attempt's structured errors all
\* match it, or the message of the exception the adapter threw matches it; a
\* failure whose text does not match is never retried.
C14_RetryOnlyOnStaleText ==
  [][(pc = "attempt" /\ calls' = calls + 1)
       => \/ hasOnlyStaleResumeErrors(resultErrors)
          \/ \E m \in ThrowMsgs : isStaleResumeError(m) /\ ChatThrows(m)]_vars

\* C15: within one turn the adapter is called at most twice: the retry starts
\* from a cleared session id, with no resume argument and with the text
\* accumulator and the buffered errors reset; whatever way the second call ends
\* the turn goes on to its end without another call, and a structured error or
\* an exception of the second call is forwarded to the client, followed by
\* chat_end{ok:false}.
C15_AtMostOneRetry ==
  /\ [](calls \in 0..2)
  /\ [][(calls = 1 /\ calls' = 2)
          => /\ resumeArg' = NoToken
             /\ sessionId' = NoToken
             /\ assistantText' = <<>>
             /\ resultErrors' = <<>>
             /\ ~hadError']_vars
  /\ [][(calls = 2 /\ pc = "attempt" /\ pc' # pc)
          => pc' \in {"persist", "appendCatch"} /\ calls' = 2]_vars
  /\ [][(calls = 2 /\ pc = "attempt" /\ resultErrors' # resultErrors)
          => \E f \in FramesOut' : /\ f.type = "result_error"
                                   /\ f.rid = nextReq.rid
                                   /\ f.text = resultErrors'[Len(resultErrors')]]_vars
  /\ [][(calls = 2 /\ pc = "appendCatch" /\ pc' # pc)
          => \E f \in FramesOut' : f.type = "error" /\ f.rid = nextReq.rid /\ f.text = caughtMessage]_vars
  /\ [][(calls = 2 /\ pc' # pc /\ (pc = "appendCatch" \/ (pc = "appendTerminal" /\ hadError)))
          => \E f \in FramesOut' : f.type = "chat_end" /\ f.rid = nextReq.rid /\ ~f.ok]_vars

\* the retry failed with the stale error again, and this time the error is forwarded
C15_Witness ==
  /\ calls = 2
  /\ pc = "attempt"
  /\ \E f \in FramesOut : f.type = "result_error" /\ isStaleResumeError(f.text)

\* C16: an error local to a turn is surfaced on that turn's stream and the
\* daemon goes on: every chat_end{ok:false} comes after a result_error or an
\* error frame of the same request, and after a failed turn the executor
\* starts the next queued request, or is idle when there is none.
C16_ErrorsSurfaced ==
  /\ [][\A i \in DOMAIN out' :
          (out'[i].type = "chat_end" /\ ~out'[i].ok)
            => \/ errShown /\ out'[i].rid = nextReq.rid
               \/ \E j \in 1..(i - 1) : out'[j].type = "error" /\ out'[j].rid = out'[i].rid]_vars
  /\ [][(pc' # pc /\ (pc = "appendCatch" \/ (pc = "appendTerminal" /\ hadError)))
          => IF queue = <<>>
             THEN ~processing' /\ pc' = "idle"
             ELSE processing' /\ nextReq' = Head(queue) /\ pc' = "appendUser"
                  /\ \E f \in FramesOut' : f.type = "chat_start" /\ f.rid = nextReq'.rid]_vars

\* a turn has failed and the turn of the next queued request has started in the same step
C16_Witness ==
  \E f, g \in FramesOut :
    /\ f.type = "chat_end" /\ ~f.ok
    /\ g.type = "chat_start" /\ g.rid = f.rid + 1

\* every daemon has started and reached the end of its startup
StartupDone == \A p \in Procs : procs[p].pc \in {"serving", "refused", "exited"}

\* C17: when the daemons that start together have all finished starting,
\* exactly one of them serves, the lock file names it and the socket path names
\* its listening socket: no exit of another one removed either.
C17_OneDaemonServes ==
  StartupDone =>
    \E p \in Procs :
      /\ procs[p].pc = "serving"
      /\ \A q \in Procs \ {p} : procs[q].pc # "serving"
      /\ lockFile.exists /\ lockFile.pid = p
      /\ sockFile = p

\* C18: releaseAgentLock removes the lock file only when the owner pid recorded
\* in it is the pid of the calling process; it never removes a lock file that
\* another process created.
C18_ReleaseOnlyOwnLock ==
  [][\A p \in Procs :
       (procs[p].pc = "release" /\ procs'[p].pc = "exited" /\ lockFile.exists)
         => lockFile.pid = p /\ lockFile.ino = procs[p].fd]_vars

\* no other process has called acquireAgentLock
Alone(p) == \A q \in Procs \ {p} : procs[q].pc = "off"

\* C19: a process that calls acquireAgentLock with no competitor, on a lock file
\* whose owner is dead, unlinks the file and acquires the lock on a later
\* attempt, before its LockAttempts attempts are used up; it is never refused.
C19_StaleLockReclaimed ==
  /\ [](\A p \in Procs :
          Alone(p) => /\ procs[p].pc # "refused"
                      /\ procs[p].attempt < LockAttempts
                      /\ (procs[p].pc = "held" => lockFile.exists /\ lockFile.pid = p))
  /\ [][\A p \in Procs :
          (Alone(p) /\ procs[p].pc = "read" /\ lockFile = StaleLock /\ procs'[p] # procs[p])
            => procs'[p].pc = "unlink"]_vars
  /\ [][\A p \in Procs :
          (Alone(p) /\ procs[p].pc = "unlink" /\ procs'[p] # procs[p])
            => ~lockFile'.exists /\ procs'[p].pc = "open"]_vars
  /\ \A p \in Procs : (Alone(p) /\ procs[p].pc = "open") ~> (procs[p].pc = "held" \/ ~Alone(p))

\* a lone process holds the lock after it removed a stale file
C19_Witness ==
  \E p \in Procs :
    /\ Alone(p)
    /\ procs[p].pc = "held"
    /\ procs[p].attempt = 1
    /\ lockFile.exists /\ lockFile.pid = p

\* C20: when the probe of the lock owner fails with EPERM the owner counts as
\* alive: acquireAgentLock returns acquired: false and the lock file stays as
\* it is.
C20_EpermMeansAlive ==
  /\ [][\A p \in Procs :
          (/\ procs[p].pc = "read"
           /\ lockFile.exists
           /\ KillProbe(lockFile.pid) = "EPERM"
           /\ procs'[p] # procs[p])
            => procs'[p].pc = "refused" /\ lockFile' = lockFile]_vars
  /\ [][(lockFile.exists /\ KillProbe(lockFile.pid) = "EPERM") => lockFile' = lockFile]_vars

\* a process was refused the lock that a process of another user owns
C20_Witness ==
  /\ lockFile = ForeignLock
  /\ \E p \in Procs : procs[p].pc = "refused"

\* C22: the queuedAhead of a chat_start is the depth of the queue right after its
\* request was dequeued.
C22_QueuedAheadIsDepth ==
  [][\A f \in FramesOut' : f.type = "chat_start" => f.n = Len(queue')]_vars

\* C21: all clients connected at the same time were told the same daemonPid, and it
\* is the pid of the single holder of the lock.
C21_SameDaemonPid ==
  \A c, d \in ClientIds :
    (link[c].daemonPid # NoPid /\ link[d].daemonPid # NoPid)
      => /\ link[c].daemonPid = link[d].daemonPid
         /\ lockFile.exists
         /\ lockFile.pid = link[c].daemonPid

OpenConns == {t \in Conns : connState[t] = "open"}

\* C24: every set_model with alias A is answered by one model_updated with alias A
\* on every connected transport; the second of two consecutive ones leaves the
\* state of the daemon as the first left it.
C24_SetModelIdempotent ==
  [][\A s \in Conns, alias \in ModelAliases :
       RecvSetModel(s, alias)
         => /\ currentModel' = alias
            /\ Len(out') = Cardinality(OpenConns)
            /\ \A t \in OpenConns : \E i \in DOMAIN out' : out'[i].to = t
            /\ \A i \in DOMAIN out' : out'[i].type = "model_updated" /\ out'[i].text = alias
            /\ (before'.type = "model_updated" /\ before'.text = alias)
                 => UNCHANGED <<daemonVars, turnVars, contVars, fileVars>>]_vars

C24_Witness ==
  /\ before.type = "model_updated"
  /\ before.text = "haiku"
  /\ Len(out) = 2
  /\ \A i \in DOMAIN out : out[i].type = "model_updated" /\ out[i].text = "haiku"
  /\ {out[i].to : i \in DOMAIN out} = {1, 2}
  /\ currentModel = "haiku"

\* C25: a malformed line is answered by exactly one error frame to its sender and
\* changes nothing else: the connection stays open and registered, so the frames
\* that follow on it are handled as they would have been.
C25_MalformedSkipped ==
  [][\A s \in Conns :
       RecvMalformed(s)
         => /\ Len(out') = 1
            /\ out'[1].type = "error"
            /\ out'[1].to = s
            /\ connState'[s] = "open"
            /\ UNCHANGED <<daemonVars, turnVars, contVars, fileVars>>]_vars

\* after the malformed line of transport 2, its ping is answered
C25_Witness ==
  /\ before.type = "error"
  /\ before.to = 2
  /\ Len(out) = 1
  /\ out[1].type = "pong"
  /\ out[1].to = 2
  /\ connState[2] = "open"

Last(h) == h[Len(h)]
IsTerminal(e) == e.role \in {"assistant", "error"}

\* what one step does to the journal, when an ok turn logs textOf(accumulated text)
JournalStep(textOf(_)) ==
  /\ \A i \in DOMAIN out' :
       out'[i].type = "chat_end" => history' # history /\ Last(history').rid = out'[i].rid
  /\ history' # history =>
       LET e == Last(history') IN
       /\ history' = AppendEntry(history, e)
       /\ e.rid = nextReq.rid
       /\ \/ /\ e = UserEntry(nextReq)
             /\ history # <<>> => IsTerminal(Last(history)) /\ Last(history).rid # e.rid
          \/ /\ IsTerminal(e)
             /\ history # <<>>
             /\ Last(history) = UserEntry(nextReq)
             /\ \E i \in DOMAIN out' :
                  /\ out'[i].type = "chat_end"
                  /\ out'[i].rid = e.rid
                  /\ out'[i].ok = (e.role = "assistant")
             /\ e.role = "assistant" => e.text = textOf(assistantText)
             /\ e.role = "error" =>
                  \/ errShown /\ e.text = resultErrors
                  \/ \E i \in DOMAIN out' :
                       out'[i].type = "error" /\ e.text = <<out'[i].text>>

WellFormedAt(file) == {i \in DOMAIN file.lines : Parses(file.lines[i])}

\* the position in S that has n - 1 positions of S after it
NthFromEnd(S, n) == CHOOSE x \in S : Cardinality({y \in S : y > x}) = n - 1

\* C27: the snapshot is the last MaxSnapshotEntries well-formed entries of the
\* journal in their original order, malformed lines skipped; of a missing file it
\* is the empty list.
C27_SnapshotIsTail ==
  snapshot.read =>
    IF ~journal.exists THEN snapshot.entries = <<>>
    ELSE LET wf == WellFormedAt(journal)
             n == Len(snapshot.entries)
         IN /\ n = (IF Cardinality(wf) <= MaxSnapshotEntries
                     THEN Cardinality(wf) ELSE MaxSnapshotEntries)
            /\ \A i \in 1..n :
                 LET at == NthFromEnd(wf, n - i + 1) IN
                 /\ snapshot.entries[i].text = journal.lines[at].text
                 /\ snapshot.entries[i].role = normalizeRole(journal.lines[at].role)

\* three well-formed entries around a malformed line: the last two come back
C27_Witness ==
  /\ snapshot.read
  /\ journal.exists
  /\ Len(journal.lines) = 4
  /\ ~Parses(journal.lines[3])
  /\ Cardinality(WellFormedAt(journal)) = 3
  /\ Len(snapshot.entries) = MaxSnapshotEntries
  /\ snapshot.entries[1].text = "a"
  /\ snapshot.entries[2].text = "b"

\* an appendHistoryEntry call of the turn in flight has not resolved
AppendPending == pc \in {"appendUser", "appendTerminal", "appendCatch"}

\* C28: on shutdown the daemon stops accepting, closes the existing connections,
\* flushes the pending history appends, removes the socket and releases the lock,
\* in this order: once the socket path is removed no connection is open, and from
\* then on no history append is pending.
C28_ShutdownOrder ==
  /\ procs[DaemonPid].pc \in {"cleanup", "release"} => \A s \in Conns : connState[s] # "open"
  /\ procs[DaemonPid].pc \in {"cleanup", "release", "exited"} => ~AppendPending

\* C29: a command in mode "ui" runs only the UI client: it never probes for a
\* daemon, never signals one and never spawns one.
C29_UiOnlyRunsClient ==
  launcher.mode = "ui" => ~launcher.probed /\ ~launcher.signalled /\ ~launcher.spawned

\* the chat_request frames whose chat_end or request-scoped error has not arrived
Outstanding == uiObs.sent \ uiObs.ended

\* C30: a UI client has at most one outstanding chat_request; a line of input while
\* a request is in flight is refused with a note, and the client writes no frame
\* from the chat_request until the chat_end or the error of that request arrives.
C30_OneOutstanding ==
  /\ [](Cardinality(Outstanding) <= 1 /\ Outstanding \subseteq {state.activeRequestId})
  /\ [][\A input \in Inputs \ {""}, resetSession \in BOOLEAN :
          (Line(input, resetSession) /\ state.activeRequestId # NoRid)
            => /\ shown' = StillProcessing
               /\ written' = <<>>
               /\ state' = state]_vars
  /\ [][Outstanding # {} => written' = <<>>]_vars

\* the second request is in flight and a line of input has just been refused
C30_Witness ==
  /\ Cardinality(uiObs.sent) = 2
  /\ Cardinality(uiObs.ended) = 1
  /\ state.activeRequestId \in Outstanding
  /\ shown = StillProcessing
  /\ written = <<>>

\* C39: for each turn the user entry is in the history journal before chat_start is
\* emitted for its request.
C39_UserEntryBeforeStart ==
  [][\A f \in FramesOut' :
       f.type = "chat_start"
         => \E i \in DOMAIN history' : history'[i].role = "user" /\ history'[i].rid = f.rid]_vars

\* C34: an identifier under which an open connection is registered stays routable:
\* the map sends it to an open connection registered under it, whatever other
\* connection closes.
C34_RegisteredStaysRoutable ==
  \A s \in Conns :
    (connState[s] = "open" /\ connClientId[s] # NoClient)
      => LET t == clientsById[connClientId[s]] IN
         /\ t # NoConn
         /\ connState[t] = "open"
         /\ connClientId[t] = connClientId[s]

\* C37: when a turn has completed (its chat_end is emitted) and no new_session is
\* being persisted, the session id in state.json is the one the daemon holds in
\* memory.
C37_PersistedTokenCurrent ==
  [][((\E f \in FramesOut' : f.type = "chat_end") /\ ~pendingNew'.active)
       => persisted' = sessionId']_vars

\* FairSpecTurnModel, set_model beside a turn: one client that registers, submits
\* at most MaxRouteRequests requests and changes the model at any moment, on a
\* daemon that holds a resume token the adapter finds stale.
NextTurnModel ==
  \/ Connect(1)
  \/ connClientId[1] = NoClient /\ RecvRegister(1, "c1")
  \/ SnapshotRead(1)
  \/ nextRid <= MaxRouteRequests /\ RecvChatRequest(1, "c1")
  \/ \E alias \in ModelAliases : RecvSetModel(1, alias)
  \/ ChatEnds({ExitCode1Msg})
  \/ TurnStep

\* the event loop runs every ready continuation of the turn, and every adapter
\* call returns or throws
FairSpecTurnModel ==
  /\ Init
  /\ [][NextTurnModel]_vars
  /\ WF_vars(TurnStep)
  /\ WF_vars(ChatEnds({ExitCode1Msg}))

\* C38: the model a chat_end frame carries is the model the chat_start of the same turn
\* carried, whatever set_model frames arrived in between.
C38_TurnModelFixed ==
  \A r \in Rids, m \in ModelAliases :
    []((\E f \in FramesOut : f.type = "chat_start" /\ f.rid = r /\ f.model = m)
         => [](\A f \in FramesOut : (f.type = "chat_end" /\ f.rid = r) => f.model = m))

\* C35: a daemon that answers the register+ping probe is never signalled: when the startup
\* supervisor sends SIGTERM to the owner of the lock, that owner is not a serving daemon
\* that holds the socket path.
C35_HealthyNeverSignalled ==
  [][(launcher.pc = "stop" /\ launcher'.pc = "waitStop")
       => ~(Healthy /\ sockFile = launcher'.target)]_vars

\* ------------------------------------------------------------- heartbeat

MaxTabs == 1
Positions == 1..MaxTabs

\* DEFAULT_TAB_NAME = /^Tab #\d+$/
DefaultTabName(name) == name = "Tab #1"

\* how getButlerState() ends: a state, or a ZellijPipeError not_ready / timeout,
\* or another error
ButlerOutcomes == {"ok", "not_ready", "timeout", "error"}

\* a failure that leaves check() as a rejected promise: unhandledRejection
\* calls cleanupAndExit(1)
TickFailureRejects(p, failed) == IF failed THEN [p EXCEPT ![DaemonPid].pc = "closing"] ELSE p

\* every await of checkSession is inside its try, and every branch of the
\* catch logs and returns: a failure does nothing to the process
TickFailure(p, failed) == p

\* checkSession(sessionName, env) up to `await getButlerState()`
CheckSession(tk, sessionName, rest) ==
  [tick |-> [tk EXCEPT !.pc = "state", !.session = sessionName, !.sessions = rest,
                       !.state = <<>>, !.renames = {}, !.suggestion = FALSE,
                       !.tabIds = FALSE],
   env |-> sessionName]

\* check() after checkSession has returned: `if (busy) break`, the next session,
\* or the end of the loop; finally { setActiveZellijEnv(previousEnv) }
Continue(tk) ==
  IF processing \/ tk.sessions = <<>>
  THEN [tick |-> [TickIdle EXCEPT !.failed = tk.failed], env |-> tk.previousEnv]
  ELSE CheckSession(tk, Head(tk.sessions), Tail(tk.sessions))

\* if (result.suggestion && !busy) { setActiveZellijEnv(env); await showPopup(...) }
SuggestionStage(tk) ==
  IF tk.suggestion /\ ~processing
  THEN [tick |-> [tk EXCEPT !.pc = "popup",
                            !.did = [kind |-> "popup", env |-> tk.session, position |-> 0]],
        env |-> tk.session]
  ELSE Continue(tk)

\* for (const rename of result.renames): skips the positions whose tab of the
\* snapshot is missing or named, or that list-tabs gave no id for, and calls
\* zellijAction("rename-tab-by-id") for the first one left, under the env
\* published at that moment
RenameLoop(tk, env) ==
  LET eligible == {p \in tk.renames :
                     p \in DOMAIN tk.state /\ DefaultTabName(tk.state[p]) /\ tk.tabIds}
  IN IF eligible = {}
     THEN SuggestionStage([tk EXCEPT !.renames = {}])
     ELSE LET p == CHOOSE q \in eligible : \A o \in eligible : q <= o IN
          [tick |-> [tk EXCEPT !.pc = "rename",
                               !.renames = {q \in tk.renames : q > p},
                               !.did = [kind |-> "rename", env |-> env, position |-> p]],
           env |-> env]

\* one run of heartbeat code between two awaits: its new position, the env it
\* leaves published, the sessions it leaves known; it writes no frame and
\* touches nothing of the executor
HeartbeatStep(r, known, failed) ==
  /\ tick' = r.tick
  /\ activeZellijEnv' = r.env
  /\ knownSessions' = known
  /\ procs' = TickFailure(procs, failed)
  /\ Emit(<<>>)
  /\ UNCHANGED <<daemonVars, turnVars, contVars, fileVars, turnObs, nextRid>>
  /\ UNCHANGED <<lockFile, sockFile, link, journal, snapshot, launcher, uiVars, zellij>>

\* the timer fires check(): skipped when busy or when no session is known
TickFires ==
  /\ tick.pc = "idle"
  /\ IF processing \/ knownSessions = <<>>
     THEN HeartbeatStep([tick |-> TickIdle, env |-> activeZellijEnv], knownSessions, FALSE)
     ELSE HeartbeatStep(CheckSession([TickIdle EXCEPT !.previousEnv = activeZellijEnv],
                                     Head(knownSessions), Tail(knownSessions)),
                        knownSessions, FALSE)
  /\ UNCHANGED tabs

\* getButlerState() returns or throws
GotState(outcome, overcrowded) ==
  /\ tick.pc = "state"
  /\ LET tk == [tick EXCEPT !.did = NoDid, !.failed = (outcome # "ok")]
         st == tabs[tick.session]
         known == IF outcome = "timeout"
                  THEN SelectSeq(knownSessions, LAMBDA z : z # tick.session)
                  ELSE knownSessions
     IN IF outcome # "ok"
        THEN HeartbeatStep(Continue(tk), known, TRUE)
        ELSE IF (\A p \in DOMAIN st : ~DefaultTabName(st[p])) /\ ~overcrowded
        THEN HeartbeatStep(Continue(tk), known, FALSE)
        ELSE HeartbeatStep([tick |-> [tk EXCEPT !.pc = "query", !.state = st],
                            env |-> activeZellijEnv], known, FALSE)
  /\ UNCHANGED tabs

\* heartbeatQuery() returns, and parseHeartbeatResult gives renames and a
\* suggestion (text that is not JSON is taken as a suggestion), or it throws
QueryDone(ok, renames, suggestion) ==
  /\ tick.pc = "query"
  /\ LET tk == [tick EXCEPT !.did = NoDid, !.failed = ~ok,
                            !.renames = renames, !.suggestion = suggestion]
     IN IF ~ok
        THEN HeartbeatStep(Continue(tk), knownSessions, TRUE)
        ELSE IF renames # {} /\ ~processing
        THEN HeartbeatStep([tick |-> [tk EXCEPT !.pc = "listTabs"], env |-> tick.session],
                           knownSessions, FALSE)
        ELSE HeartbeatStep(SuggestionStage([tk EXCEPT !.renames = {}]), knownSessions, FALSE)
  /\ UNCHANGED tabs

\* zellijAction("list-tabs") returns the ids, or fails and leaves the map empty
ListTabsDone(ok) ==
  /\ tick.pc = "listTabs"
  /\ HeartbeatStep(RenameLoop([tick EXCEPT !.did = NoDid, !.tabIds = ok, !.failed = ~ok],
                              activeZellijEnv),
                   knownSessions, ~ok)
  /\ UNCHANGED tabs

\* zellijAction("rename-tab-by-id") returns, the tab renamed, or fails
RenameDone(ok) ==
  /\ tick.pc = "rename"
  /\ LET d == tick.did IN
     tabs' = IF ok /\ d.env \in Sessions
             THEN [tabs EXCEPT ![d.env][d.position] = "editor"]
             ELSE tabs
  /\ HeartbeatStep(RenameLoop([tick EXCEPT !.did = NoDid, !.failed = ~ok], activeZellijEnv),
                   knownSessions, ~ok)

\* showPopup() returns or fails
PopupDone(ok) ==
  /\ tick.pc = "popup"
  /\ HeartbeatStep(Continue([tick EXCEPT !.did = NoDid, !.failed = ~ok]), knownSessions, ~ok)
  /\ UNCHANGED tabs

\* the user gives a name to a tab
UserRenames(z, p) ==
  /\ DefaultTabName(tabs[z][p])
  /\ tabs' = [tabs EXCEPT ![z][p] = "editor"]
  /\ UNCHANGED <<daemonVars, turnVars, contVars, fileVars, obsVars, outerVars>>
  /\ UNCHANGED <<zellij, activeZellijEnv, knownSessions, tick>>

\* SpecHeartbeat: a serving daemon, client "c1" in zellij session z1 (and "c2"
\* in z2, which never connects), at most MaxRouteRequests turns, the heartbeat
\* timer, and a user who names tabs; every pipe, model and action call of a
\* tick returns or fails
InitHeartbeat ==
  /\ InitDaemon
  /\ sessionId = NoToken
  /\ lockFile = [exists |-> TRUE, ino |-> NewIno(DaemonPid, 0), pid |-> DaemonPid]
  /\ procs = [p \in Procs |->
                IF p = DaemonPid
                THEN [pc |-> "serving", attempt |-> 0, fd |-> NewIno(DaemonPid, 0)]
                ELSE ProcOff]
  /\ sockFile = DaemonPid
  /\ link = [c \in ClientIds |-> NoLink]
  /\ journal = Missing
  /\ snapshot = NotRead
  /\ launcher = LauncherOff
  /\ InitUi
  /\ zellij = [c \in ClientIds |-> IF c = "c1" THEN "z1" ELSE "z2"]
  /\ activeZellijEnv = NoEnv
  /\ knownSessions = <<>>
  /\ tick = TickIdle
  /\ tabs = [z \in Sessions |-> [p \in Positions |-> "Tab #1"]]

NextHeartbeat ==
  \/ Connect(1)
  \/ connClientId[1] = NoClient /\ RecvRegister(1, "c1")
  \/ SnapshotRead(1)
  \/ nextRid <= MaxRouteRequests /\ RecvChatRequest(1, "c1")
  \/ ChatEnds({FatalMsg})
  \/ TurnStep
  \/ TickFires
  \/ \E outcome \in ButlerOutcomes, overcrowded \in BOOLEAN : GotState(outcome, overcrowded)
  \/ \E ok \in BOOLEAN, renames \in SUBSET Positions, suggestion \in BOOLEAN :
       QueryDone(ok, renames, suggestion)
  \/ \E ok \in BOOLEAN : ListTabsDone(ok)
  \/ \E ok \in BOOLEAN : RenameDone(ok)
  \/ \E ok \in BOOLEAN : PopupDone(ok)
  \/ \E z \in Sessions, p \in Positions : UserRenames(z, p)

SpecHeartbeat == InitHeartbeat /\ [][NextHeartbeat]_vars

\* C33: while a turn is in flight the published env context is that of the turn's request.
C33_TurnEnvPublished == processing => activeZellijEnv = RequestEnv(nextReq)

\* C31: a tick that fires while the executor is busy is skipped, and the heartbeat calls
\* no tab rename and opens no popup while a turn is in flight.
C31_HeartbeatYields ==
  [][/\ (tick.pc = "idle" /\ processing) => tick'.pc = "idle"
     /\ (tick'.did # NoDid /\ tick'.did # tick.did) => ~processing]_vars

\* C36: when the heartbeat calls the rename of a tab, that tab has a default-pattern name.
C36_RenamesDefaultOnly ==
  [][(tick'.did.kind = "rename" /\ tick'.did # tick.did)
       => /\ tick'.did.env \in Sessions
          /\ DefaultTabName(tabs[tick'.did.env][tick'.did.position])]_vars

Aliases == ModelAliases \cup {"sonnet"}

NextModel ==
  \/ \E s \in Conns : Connect(s)
  \/ \E s \in Conns : Close(s)
  \/ \E s \in Conns : connClientId[s] = NoClient /\ RecvRegister(s, Ident(s))
  \/ \E s \in Conns : SnapshotRead(s)
  \/ \E s \in Conns, alias \in Aliases : RecvSetModel(s, alias)

SpecModel == InitNoToken /\ [][NextModel]_vars

\* C40: the daemon's current model is one of the two aliases, opus or haiku, and no
\* model_updated frame carries another alias.
C40_ModelIsAlias ==
  /\ currentModel \in ModelAliases
  /\ \A f \in FramesOut : f.type = "model_updated" => f.text \in ModelAliases

====
